---- MODULE Spec2Model ----
(***************************************************************************)
(* Model of kobakazu0429/wasi: the Asyncify controller (src/asyncify.ts),  *)
(* the WASI dispatch wrapper, translateError and the invocation driver     *)
(* (Bindings.run / Bindings.exportFunction).                               *)
(*                                                                         *)
(* JavaScript is single-threaded: a step of the model is a stretch of      *)
(* synchronous code.  `cur` names the wrapped-export invocation whose      *)
(* synchronous code is executing (0: the event loop is idle); timers,      *)
(* promise continuations, the abort signal and new calls from the embedder *)
(* happen only while the event loop is idle.                               *)
(***************************************************************************)
EXTENDS Integers, Sequences, FiniteSets, TLC

\* ------------------------------------------------------------------ bounds
\* Import calls the guest makes in one export invocation, at most.
MaxImports == 2
\* Io-vectors in one fd_write, at most.
MaxIovs == 2
\* Frames left on the asyncify stack by rejected calls, beyond which the embedder
\* makes no further call.
MaxLeaked == 1

\* WASI calls the guest makes in one run of _start, at most (file-system models).
MaxCalls == 3
\* Descriptors the guest holds open at a time, at most, beyond the pre-open.
MaxOpen == 2
\* A file grows to at most this many bytes.
MaxFileLen == 3
\* The embedder passes at most this many arguments.
MaxArgs == 2
\* The guest passes at most this many subscriptions to poll_oneoff.
MaxSubs == 2
\* Wrapper closures the Asyncify state creates, at most.
MaxWrappers == 4

\* Wrapped-export invocations the embedder may issue (handles of newExport calls).
CallIds == {1, 2}
\* Arguments the embedder passes to an export in export mode (sum(a, b)).
ArgLists == {<<1, 1>>, <<1, 2>>}
\* Status codes the guest passes to proc_exit.
ExitCodes == {0, 120}

\* ------------------------------------------------------- program constants
DATA_ADDR == 16

StateNone == 0
StateUnwinding == 1
StateRewinding == 2

SUCCESS == 0
ACCES == 2
BADF == 8
CANCELED == 11
INVAL == 28
ISDIR == 31
NOENT == 44
NOSYS == 52
NOTDIR == 54
NOTEMPTY == 55

\* enum Whence
WhenceCurrent == 0
WhenceEnd == 1
WhenceSet == 2

\* enum OpenFlags (Create = 1 << 0)
OpenFlagsCreate == 1

\* enum FdFlags (1 << 0 .. 1 << 4)
FdFlagsAppend == 1
FdFlagsNonBlock == 4

\* The first descriptor of the pre-opens; 0, 1 and 2 are stdin, stdout and stderr.
FIRST_PREOPEN_FD == 3
\* The terminator StringCollection appends to each string, "\0".
NUL == 0
\* The "=" between key and value of an environment string.
EqualsSign == 61
\* dirent_t.size: next u64, ino u64, nameLen u32, type u8, aligned to 8 bytes.
DirentSize == 24

\* ---------------------------------------------------------- JS values
Undef == [t |-> "undefined", v |-> 0]
Num(n) == [t |-> "number", v |-> n]
\* The promise returned by the dispatch wrapper to invocation c's import call.
PromiseOf(c) == [t |-> "promise", v |-> c]

\* isPromise(obj): only promise objects have a callable `then`.
isPromise(obj) == obj.t = "promise"

\* ------------------------------------------------------- thrown values
NoErr == [cls |-> "none", name |-> "", code |-> 0]
SystemError(code) == [cls |-> "SystemError", name |-> "Error", code |-> code]
HostError(name) == [cls |-> "Error", name |-> name, code |-> 0]
TypeErr == [cls |-> "TypeError", name |-> "TypeError", code |-> 0]
RangeErr == [cls |-> "RangeError", name |-> "RangeError", code |-> 0]
ExitStatus(statusCode) == [cls |-> "ExitStatus", name |-> "", code |-> statusCode]
\* A thrown value that is no Error object at all (throw "string").
OtherThrown == [cls |-> "NonError", name |-> "", code |-> 0]
\* new Error(`Invalid async state ${state}, expected 0.`)
InvalidStateError == HostError("Error")
\* new Error("Memory not yet initialised.")
MemoryError == HostError("Error")

\* err instanceof Error: every class that extends Error.
InstanceOfError(err) == err.cls \in {"Error", "SystemError", "TypeError", "RangeError"}

HostErrorNames ==
  {"NotFoundError", "NotAllowedError", "DataCloneError", "SecurityError",
   "InvalidModificationError", "AbortError", "Error"}

\* What a WASI implementation may throw.
Thrown ==
  {SystemError(c) : c \in {BADF, NOSYS, CANCELED}}
    \cup {HostError(n) : n \in HostErrorNames}
    \cup {TypeErr, RangeErr, OtherThrown}
    \cup {ExitStatus(c) : c \in ExitCodes}

\* Faulty variant: the DataCloneError case is missing from the switch.
NameCodeNoDataClone(name) ==
  CASE name = "NotFoundError" -> NOENT
    [] name \in {"NotAllowedError", "SecurityError"} -> ACCES
    [] name = "InvalidModificationError" -> NOTEMPTY
    [] name = "AbortError" -> CANCELED
    [] OTHER -> 0

\* The name-to-code switch of translateError; 0 stands for `code` left undefined.
NameCode(name) ==
  CASE name = "NotFoundError" -> NOENT
    [] name \in {"NotAllowedError", "DataCloneError", "SecurityError"} -> ACCES
    [] name = "InvalidModificationError" -> NOTEMPTY
    [] name = "AbortError" -> CANCELED
    [] OTHER -> 0

\* Faulty variant: a SystemError is treated like any other Error object.
translateErrorNoSystem(err) ==
  IF InstanceOfError(err) /\ NameCode(err.name) # 0
  THEN [ret |-> TRUE, code |-> NameCode(err.name)]
  ELSE [ret |-> FALSE, code |-> 0]

\* Faulty variant: what the switch does not name is returned as INVAL instead of re-thrown.
translateErrorSwallow(err) ==
  IF err.cls = "SystemError"
  THEN [ret |-> TRUE, code |-> err.code]
  ELSE IF InstanceOfError(err) /\ NameCode(err.name) # 0
       THEN [ret |-> TRUE, code |-> NameCode(err.name)]
       ELSE [ret |-> TRUE, code |-> INVAL]

\* translateError(err): [ret |-> TRUE, code |-> c] when it returns c,
\* [ret |-> FALSE, code |-> 0] when it re-throws err.
translateError(err) ==
  IF err.cls = "SystemError"
  THEN [ret |-> TRUE, code |-> err.code]
  ELSE IF InstanceOfError(err)
       THEN IF NameCode(err.name) # 0
            THEN [ret |-> TRUE, code |-> NameCode(err.name)]
            ELSE [ret |-> FALSE, code |-> 0]
       ELSE IF err.cls \in {"TypeError", "RangeError"}
            THEN [ret |-> TRUE, code |-> INVAL]
            ELSE [ret |-> FALSE, code |-> 0]

\* Faulty variant: _checkAbort never throws.
checkAbortNever(isAborted) == NoErr

\* _checkAbort(): the value it throws, NoErr when it returns.
checkAbort(isAborted) == IF isAborted THEN SystemError(CANCELED) ELSE NoErr

\* ------------------------------------------------------------- promises
\* The promise an async dispatch wrapper returned: its state, and the progress of the
\* implementation it awaits (impl: "running", "ok" or "threw" ierr; step: io-vectors
\* handed to the sink so far).  owner is the guest-level import call that made it.
NoPromise ==
  [st |-> "none", val |-> Undef, err |-> NoErr, owner |-> <<0, 0>>,
   op |-> [name |-> "none", a |-> 0, n |-> 0], impl |-> "none", ierr |-> NoErr, step |-> 0]
Pending(owner, op) ==
  [NoPromise EXCEPT !.st = "pending", !.owner = owner, !.op = op, !.impl = "running"]
ImplOk(p) == [p EXCEPT !.impl = "ok"]
ImplThrew(p, err) == [p EXCEPT !.impl = "threw", !.ierr = err]
Fulfilled(p, code) == [p EXCEPT !.st = "fulfilled", !.val = Num(code)]
Rejected(p, err) == [p EXCEPT !.st = "rejected", !.err = err]

\* The catch block of the dispatch wrapper: return translateError(err).
dispatchCatch(p, err) ==
  IF translateError(err).ret
  THEN Fulfilled(p, translateError(err).code)
  ELSE Rejected(p, err)

\* The dispatch wrapper after `await value(...args)` returned normally:
\* this._checkAbort(); return E.SUCCESS, inside the try.
dispatchReturn(p, isAborted) ==
  IF checkAbort(isAborted) # NoErr
  THEN dispatchCatch(p, checkAbort(isAborted))
  ELSE Fulfilled(p, SUCCESS)

\* ------------------------------------------------------------ the guest
NoOp == [name |-> "none", a |-> 0, n |-> 0]
\* A host import that returns a plain value (no promise).
SyncOp == [name |-> "sync", a |-> 0, n |-> 0]
\* A WASI binding whose implementation awaits the host and then completes or throws.
WasiOp == [name |-> "wasi", a |-> 0, n |-> 0]
ProcExitOp(code) == [name |-> "proc_exit", a |-> code, n |-> 0]
\* fd_write(fd, iovs, n, nwrittenPtr) with n io-vectors of one byte each.
FdWriteOp(fd, n) == [name |-> "fd_write", a |-> fd, n |-> n]

CoreOps == {SyncOp, WasiOp} \cup {ProcExitOp(code) : code \in ExitCodes}
IoOps == {FdWriteOp(fd, n) : fd \in {1, 2}, n \in 0..MaxIovs}

NoFrame == [call |-> 0, args |-> <<>>, k |-> 0, op |-> NoOp]

\* What the guest export returns when it runs to its end: sum(a, b), or nothing (_start).
GuestResult(args) == IF Len(args) = 2 THEN Num(args[1] + args[2]) ELSE Undef

\* What the plain host import returns.
SyncValue == Num(7)

NoRecv == [owner |-> <<0, 0>>, val |-> Undef]

\* An entry of an invocation's log of controller steps; `a` is the address passed to
\* asyncify_start_unwind / asyncify_start_rewind (0 for the steps that take none).
Ev(e, a) == [e |-> e, a |-> a]

\* History kept per invocation (not program state): fnArgs, the argument list of
\* each call of the guest export; evs, the controller steps; hostCalls, the host
\* functions invoked; impCalls / asyncImps, the import calls the guest made and those
\* of them to promise-returning imports; recv, what the last import call re-entered
\* in state Rewinding returned to the guest.

IdleCall ==
  [pc |-> "idle", args |-> <<>>, result |-> Undef, err |-> NoErr,
   prom |-> NoPromise, awaited |-> Undef,
   fnArgs |-> <<>>, evs |-> <<>>, hostCalls |-> 0, impCalls |-> 0, asyncImps |-> 0,
   recv |-> NoRecv]

Final == {"idle", "done", "rejected"}

VARIABLES
  mode,     \* "run": Bindings.run drives _start; "export": Bindings.exportFunction
  runP,     \* the promise of run(): st "init", "awaiting", "resolved" (val) or "rejected" (err)
  memory,   \* Bindings.memory has been set
  aborted,  \* abortSignal.aborted
  astate,   \* the guest's asyncify state (asyncify_get_state)
  data,     \* the guest's asyncify stack at DATA_ADDR: the frames saved by unwinding
  frame,    \* the guest frame that is executing
  value,    \* Asyncify.value
  cur,      \* the invocation whose synchronous code runs; 0 when the event loop is idle
  calls,    \* per invocation of a wrapped export: its position, promise and history
  stdout,   \* chunks delivered to the stdout sink
  stderr,   \* chunks delivered to the stderr sink
  handled,  \* what was last written through nwrittenPtr; -1 before any write
  openFiles,\* Bindings._openFiles: the fd table, fd -> pre-open, open file or open directory
  host,     \* the host file system behind the pre-open: path -> file or directory
  stdin,    \* the bytes the stdin stream has not handed out yet
  gmem,     \* the cells of guest memory the bindings write results to
  last,     \* the last WASI call that returned to the guest, with its code (history)
  ncalls,   \* the WASI calls the guest has made in this run (history)
  argv,     \* the constructor's args: a list of strings (lists of character codes)
  env,      \* the constructor's env: its entries <<key, value>> in insertion order
  floating, \* host deletes in flight whose promise no code awaits
  unhandled,\* the errors of promises that rejected with no handler attached
  timer,    \* the setTimeout of Bindings._wait and the poll_oneoff call that awaits it
  wrappers  \* WRAPPED_EXPORTS, the wrapper closures created, and the handles handed out

wasiVars ==
  <<openFiles, host, stdin, gmem, last, ncalls, argv, env, floating, unhandled, timer,
    wrappers>>

vars ==
  <<mode, runP, memory, aborted, astate, data, frame, value, cur, calls,
    stdout, stderr, handled, wasiVars>>

\* ------------------------------------------- the fd table and the host files
Paths == {"f", "d", "x"}
Fds == 0..(FIRST_PREOPEN_FD + MaxOpen)

\* dirty: the open file holds written bytes it has not flushed.
NoEntry == [kind |-> "none", path |-> "", position |-> 0, dirty |-> FALSE]
\* The pre-open "/sandbox": a directory handle mounted at FIRST_PREOPEN_FD.
PreOpenEntry ==
  [kind |-> "preopen", path |-> "/sandbox", position |-> 0, dirty |-> FALSE]
OpenFile(path) == [kind |-> "file", path |-> path, position |-> 0, dirty |-> FALSE]
OpenDirectory(path) == [kind |-> "dir", path |-> path, position |-> 0, dirty |-> FALSE]

Absent == [kind |-> "absent", data |-> <<>>]
HostFile(bytes) == [kind |-> "file", data |-> bytes]
HostDir == [kind |-> "dir", data |-> <<>>]

\* The sandbox at the start of an invocation: a file f of two bytes, a directory d,
\* nothing at x.
InitHost == [p \in Paths |-> CASE p = "f" -> HostFile(<<10, 11>>)
                                [] p = "d" -> HostDir
                                [] OTHER -> Absent]

\* The bytes stdin is preloaded with (bufferIn).
InitStdin == <<20, 21, 22>>

\* A call of a binding by the guest, with its arguments; ret is the code it returned,
\* -1 when the call did not return a code.
Req(name, fd, path, x, y, lens) ==
  [name |-> name, fd |-> fd, path |-> path, x |-> x, y |-> y, lens |-> lens, ret |-> -1]
NoReq == Req("none", 0, "", 0, 0, <<>>)

\* Guest memory cells not written yet hold Unwritten.
Unwritten == -1
\* The pointers the guest passes for the packed string buffer, and the bytes of guest
\* memory that hold it.
BufPtrs == {0, 3}
Addrs == 0..(3 + 4 * MaxArgs)

InitGmem ==
  [fd |-> Unwritten, pos |-> Unwritten, n |-> Unwritten, bufs |-> <<>>,
   dirents |-> <<>>, used |-> Unwritten,
   count |-> Unwritten, size |-> Unwritten, ptrs |-> <<>>,
   str |-> [a \in Addrs |-> Unwritten],
   events |-> <<>>, nevents |-> Unwritten]

\* No timer has been set.  st: "none", "pending", "fired" (the timeout elapsed) or
\* "cleared" (clearTimeout in the abort listener); req, clock and matching belong to
\* the poll_oneoff call that awaits the timer.
NoTimer ==
  [st |-> "none", ms |-> 0, req |-> NoReq, clock |-> <<>>, matching |-> 0]

\* The functions the guest exports and the functions of the host's import object.
GuestExports == {"_start", "sum"}
HostImports == {"fd_write", "get_time"}

\* WRAPPED_EXPORTS.get(fn) === undefined
NoHandle == 0

\* const WRAPPED_EXPORTS = new WeakMap(): no wrapper yet.  made: the closures created
\* so far, each a handle of its own; got: the handles each function's wrapping has
\* yielded (history).
InitWrappers ==
  [exports |-> [fn \in GuestExports |-> NoHandle],
   made |-> 0,
   got |-> [fn \in GuestExports \cup HostImports |-> {}]]

\* Asyncify.wrapExportFn(fn): the wrapper WRAPPED_EXPORTS holds for fn, else a new
\* closure, which WRAPPED_EXPORTS then holds.
wrapExportFn(w, fn) ==
  IF w.exports[fn] # NoHandle
  THEN [handle |-> w.exports[fn], w |-> w]
  ELSE [handle |-> w.made + 1,
        w |-> [w EXCEPT !.exports[fn] = w.made + 1, !.made = @ + 1]]

\* proxyGet's get trap over wrapModuleImports: transform(obj[name]) runs at every
\* lookup, and Asyncify.wrapImportFn(fn) returns a new closure each time it runs.
proxyGet(w, fn) ==
  [handle |-> w.made + 1, w |-> [w EXCEPT !.made = @ + 1]]

\* The state after construction, but for args and env.
InitBindings ==
  /\ wrappers = InitWrappers
  /\ mode \in {"run", "export"}
  /\ runP = [st |-> "init", val |-> -1, err |-> NoErr]
  /\ memory = FALSE
  /\ aborted = FALSE
  /\ astate = StateNone
  /\ data = <<>>
  /\ frame = NoFrame
  /\ value = Undef
  /\ cur = 0
  /\ calls = [c \in CallIds |-> IdleCall]
  /\ stdout = <<>>
  /\ stderr = <<>>
  /\ handled = -1
  /\ openFiles = [fd \in Fds |-> IF fd = FIRST_PREOPEN_FD THEN PreOpenEntry ELSE NoEntry]
  /\ host = InitHost
  /\ stdin = InitStdin
  /\ gmem = InitGmem
  /\ last = NoReq
  /\ ncalls = 0
  /\ floating = {}
  /\ unhandled = {}
  /\ timer = NoTimer

\* Bindings constructed with the defaults args = [] and env = {}.
Init ==
  /\ InitBindings
  /\ argv = <<>>
  /\ env = <<>>

\* The strings the embedder passes as arguments: "", "a", "bc" and "a\0b".
ArgStrings == {<<>>, <<97>>, <<98, 99>>, <<97, NUL, 98>>}
ArgvLists == UNION {[1..n -> ArgStrings] : n \in 0..MaxArgs}

\* The environments the embedder passes: the entries of an object with the keys "k"
\* and "l" and the values "" and "v", in insertion order.
EnvKeys == {<<107>>, <<108>>}
EnvValues == {<<>>, <<118>>}
EnvLists ==
  {e \in UNION {[1..n -> EnvKeys \X EnvValues] : n \in 0..Cardinality(EnvKeys)} :
     \A i, j \in 1..Len(e) : i # j => e[i][1] # e[j][1]}

\* Bindings constructed with any of these arguments and environments.
InitArgv ==
  /\ InitBindings
  /\ argv \in ArgvLists
  /\ env \in EnvLists

\* ------------------------------------------------- Asyncify.wrapExportFn
\* newExport(...args) up to its call of fn: this.assertNoneState().  The embedder's
\* handles of settled calls are dropped when it calls again.
Enter(c, args) ==
  /\ calls' = [d \in CallIds |->
       IF d = c
       THEN IF astate = StateNone
            THEN [IdleCall EXCEPT !.pc = "fn", !.args = args]
            ELSE [IdleCall EXCEPT !.pc = "rejected", !.args = args,
                                  !.err = InvalidStateError]
       ELSE IF calls[d].pc \in Final THEN IdleCall ELSE calls[d]]
  /\ cur' = IF astate = StateNone THEN c ELSE 0

\* The embedder calls a wrapped export (export mode).  `overlap` tells whether it
\* may do so while another call is pending.
CallExport(c, args, overlap) ==
  /\ mode = "export"
  /\ cur = 0
  /\ calls[c].pc \in Final
  /\ overlap \/ \A d \in CallIds : calls[d].pc \in Final
  /\ Len(data) < MaxLeaked + Cardinality({d \in CallIds : calls[d].pc = "await"})
  /\ Enter(c, args)
  /\ UNCHANGED <<wasiVars, mode, runP, memory, aborted, astate, data, frame, value,
                 stdout, stderr, handled>>

\* Faulty variant: the export is first called without the caller's arguments.
InvokeArgsNone(args) == <<>>

\* The arguments of the first invocation: fn(...args).
InvokeArgs(args) == args

\* let result = fn(...args): the guest export starts with the caller's arguments.
InvokeGuest(c) ==
  /\ cur = c
  /\ calls[c].pc = "fn"
  /\ frame' = [call |-> c, args |-> InvokeArgs(calls[c].args), k |-> 0, op |-> NoOp]
  /\ calls' = [calls EXCEPT ![c].pc = "guest",
                            ![c].fnArgs = Append(@, InvokeArgs(calls[c].args))]
  /\ UNCHANGED <<wasiVars, mode, runP, memory, aborted, astate, data, value, cur,
                 stdout, stderr, handled>>

\* Faulty variant: the re-invocation passes the original arguments again.
ReinvokeArgsAgain(args) == args

\* The arguments of the re-invocation: result = fn().
ReinvokeArgs(args) == <<>>

\* Faulty variant: the loop awaits without calling asyncify_stop_unwind.
StopUnwindSkipped(c) ==
  /\ cur = c
  /\ calls[c].pc = "loop"
  /\ astate = StateUnwinding
  /\ calls' = [calls EXCEPT ![c].pc = "await", ![c].awaited = value,
                            ![c].evs = Append(@, Ev("await", 0))]
  /\ cur' = 0
  /\ UNCHANGED <<wasiVars, mode, runP, memory, aborted, astate, data, frame, value,
                 stdout, stderr, handled>>

\* Faulty variant: the loop awaits the stashed promise first and calls
\* asyncify_stop_unwind only after the await.
StopUnwindLate(c) ==
  /\ cur = c
  /\ calls[c].pc = "loop"
  /\ astate = StateUnwinding
  /\ calls' = [calls EXCEPT ![c].pc = "await", ![c].awaited = value,
                            ![c].evs = @ \o <<Ev("await", 0), Ev("stop_unwind", 0)>>]
  /\ cur' = 0
  /\ UNCHANGED <<wasiVars, mode, runP, memory, aborted, astate, data, frame, value,
                 stdout, stderr, handled>>

\* while (getState() === Unwinding): asyncify_stop_unwind(); await this.value.
StopUnwind(c) ==
  /\ cur = c
  /\ calls[c].pc = "loop"
  /\ astate = StateUnwinding
  /\ astate' = StateNone
  /\ calls' = [calls EXCEPT ![c].pc = "await", ![c].awaited = value,
                            ![c].evs = @ \o <<Ev("stop_unwind", 0), Ev("await", 0)>>]
  /\ cur' = 0
  /\ UNCHANGED <<wasiVars, mode, runP, memory, aborted, data, frame, value,
                 stdout, stderr, handled>>

\* The loop is left: this.assertNoneState(); return result.
ExportReturn(c) ==
  /\ cur = c
  /\ calls[c].pc = "loop"
  /\ astate # StateUnwinding
  /\ calls' = [calls EXCEPT
       ![c].pc = IF astate = StateNone THEN "done" ELSE "rejected",
       ![c].err = IF astate = StateNone THEN NoErr ELSE InvalidStateError]
  /\ cur' = 0
  /\ UNCHANGED <<wasiVars, mode, runP, memory, aborted, astate, data, frame, value,
                 stdout, stderr, handled>>

\* A value is settled when `await` of it can continue.
Settled(v) == isPromise(v) => calls[v.v].prom.st \in {"fulfilled", "rejected"}

\* What this.value holds after `this.value = await this.value` resolved.
StashAfterAwait(p) == p.val

\* Faulty variant: the rejection of the stashed promise is replaced by another error.
AwaitThrowsOther(p) == InvalidStateError

\* What `await this.value` throws when the stashed promise is rejected: its reason.
AwaitThrows(p) == p.err

\* The continuation of `await this.value`: the stash is replaced by the resolved
\* value, assertNoneState(), asyncify_start_rewind(DATA_ADDR); a rejection leaves
\* newExport with the thrown value.
AwaitResume(c) ==
  /\ cur = 0
  /\ calls[c].pc = "await"
  /\ Settled(calls[c].awaited)
  /\ LET p == calls[calls[c].awaited.v].prom
     IN IF isPromise(calls[c].awaited) /\ p.st = "rejected"
        THEN /\ calls' = [calls EXCEPT ![c].pc = "rejected", ![c].err = AwaitThrows(p)]
             /\ UNCHANGED <<value, astate, cur>>
        ELSE /\ value' = IF isPromise(calls[c].awaited)
                         THEN StashAfterAwait(p) ELSE calls[c].awaited
             /\ IF astate = StateNone
                THEN /\ astate' = StateRewinding
                     /\ calls' = [calls EXCEPT ![c].pc = "rewind",
                                               ![c].evs = Append(@, Ev("start_rewind", DATA_ADDR))]
                     /\ cur' = c
                ELSE /\ calls' = [calls EXCEPT ![c].pc = "rejected",
                                               ![c].err = InvalidStateError]
                     /\ UNCHANGED <<astate, cur>>
  /\ UNCHANGED <<wasiVars, mode, runP, memory, aborted, data, frame, stdout, stderr, handled>>

\* result = fn(): the guest, entered in state Rewinding, restores the frame on top
\* of its asyncify stack and repeats the import call it was suspended in.
ReinvokeGuest(c) ==
  /\ cur = c
  /\ calls[c].pc = "rewind"
  /\ data # <<>>
  /\ frame' = data[Len(data)]
  /\ data' = SubSeq(data, 1, Len(data) - 1)
  /\ calls' = [calls EXCEPT ![c].pc = "import",
                            ![c].fnArgs = Append(@, ReinvokeArgs(calls[c].args)),
                            ![c].evs = Append(@, Ev("reinvoke", 0))]
  /\ UNCHANGED <<wasiVars, mode, runP, memory, aborted, astate, value, cur,
                 stdout, stderr, handled>>

\* ------------------------------------------------------ the guest's steps
\* The guest calls an import.
GuestCallImport(c, op) ==
  /\ cur = c
  /\ calls[c].pc = "guest"
  /\ frame.k < MaxImports
  /\ calls[c].impCalls < MaxImports
  /\ frame' = [frame EXCEPT !.op = op]
  /\ calls' = [calls EXCEPT ![c].pc = "import", ![c].impCalls = @ + 1,
                            ![c].asyncImps = IF op.name = "sync" THEN @ ELSE @ + 1]
  /\ UNCHANGED <<wasiVars, mode, runP, memory, aborted, astate, data, value, cur,
                 stdout, stderr, handled>>

\* The guest export runs to its end and returns.
GuestReturn(c) ==
  /\ cur = c
  /\ calls[c].pc = "guest"
  /\ calls' = [calls EXCEPT ![c].pc = "loop", ![c].result = GuestResult(frame.args)]
  /\ frame' = NoFrame
  /\ UNCHANGED <<wasiVars, mode, runP, memory, aborted, astate, data, value, cur,
                 stdout, stderr, handled>>

\* The import returned in state Unwinding: the guest saves its frame on the asyncify
\* stack and returns from the export without a result.
GuestUnwind(c) ==
  /\ cur = c
  /\ calls[c].pc = "unwinding"
  /\ data' = Append(data, frame)
  /\ frame' = NoFrame
  /\ calls' = [calls EXCEPT ![c].pc = "loop", ![c].result = Undef]
  /\ UNCHANGED <<wasiVars, mode, runP, memory, aborted, astate, value, cur,
                 stdout, stderr, handled>>

\* ------------------------------------------------ the WASI implementations
\* The sink chunk of io-vector i of the fd_write made by import call `owner`.
Chunk(owner, i) == <<owner[1], owner[2], i>>

\* fd_write's switch (fd): 1 is this._stdOut, 2 is this._stdErr.
SinkOf(op) == IF op.name = "fd_write" THEN op.a ELSE 0

\* The synchronous part of a binding called through the dispatch wrapper, up to the
\* first await that yields: the promise it leaves, the chunk it handed to a sink
\* (<<>>: none) and what it wrote through nwrittenPtr (-1: nothing).
\*   proc_exit throws ExitStatus inside the wrapper's try;
\*   fd_write runs _forEachIoVec up to `await out.write(data)` of the first io-vector.
BindingCall(op, owner, hasMemory) ==
  LET p == Pending(owner, op) IN
  CASE op.name = "proc_exit" ->
         [prom |-> dispatchCatch(ImplThrew(p, ExitStatus(op.a)), ExitStatus(op.a)),
          chunk |-> <<>>, handled |-> -1]
    [] op.name = "fd_write" ->
         IF ~hasMemory
         THEN [prom |-> ImplThrew(p, MemoryError), chunk |-> <<>>, handled |-> -1]
         ELSE IF op.n = 0
              THEN [prom |-> ImplOk(p), chunk |-> <<>>, handled |-> 0]
              ELSE [prom |-> [p EXCEPT !.step = 1],
                    chunk |-> <<Chunk(owner, 0)>>, handled |-> -1]
    [] OTHER -> [prom |-> p, chunk |-> <<>>, handled |-> -1]

\* ------------------------------------------------- Asyncify.wrapImportFn
\* Faulty variant: the wrapper entered in state Rewinding returns nothing.
RewindReturnNothing(stash) == Undef

\* What the wrapper returns when it is entered in state Rewinding.
RewindReturn(stash) == stash

\* Faulty variant of the dispatch Proxy: the bindings are handed out as they are, and
\* the call of one returns a plain value.
dispatchProxyPlain(op, c) == SyncValue

\* The dispatch Proxy of getWasiImports: every function of the bindings is handed out
\* as async (...args) => {...}, whose call returns a promise whatever the binding does.
dispatchProxy(op, c) == PromiseOf(c)

\* const value = fn(...args) in the import wrapper: a plain host import returns its
\* value, a WASI import is the dispatch Proxy's function.
HostCall(op, c) == IF op.name = "sync" THEN SyncValue ELSE dispatchProxy(op, c)

\* The wrapped import, called by the guest.
wrapImportFn(c) ==
  /\ cur = c
  /\ calls[c].pc = "import"
  /\ IF astate = StateRewinding
     THEN \* asyncify_stop_rewind(); return this.value
          /\ astate' = StateNone
          /\ frame' = [frame EXCEPT !.k = @ + 1, !.op = NoOp]
          /\ calls' = [calls EXCEPT
               ![c].pc = "guest",
               ![c].evs = Append(@, Ev("stop_rewind", 0)),
               ![c].recv = [owner |-> <<frame.call, frame.k>>,
                            val |-> RewindReturn(value)]]
          /\ UNCHANGED <<value, cur, stdout, stderr, handled>>
     ELSE IF astate # StateNone
     THEN \* assertNoneState() throws through the guest to newExport
          /\ calls' = [calls EXCEPT ![c].pc = "rejected", ![c].err = InvalidStateError]
          /\ frame' = NoFrame
          /\ cur' = 0
          /\ UNCHANGED <<astate, value, stdout, stderr, handled>>
     ELSE IF ~isPromise(HostCall(frame.op, c))
     THEN \* const value = fn(...args); not a promise: return value
          /\ frame' = [frame EXCEPT !.k = @ + 1, !.op = NoOp]
          /\ calls' = [calls EXCEPT ![c].pc = "guest", ![c].hostCalls = @ + 1,
                                    ![c].recv = NoRecv]
          /\ UNCHANGED <<astate, value, cur, stdout, stderr, handled>>
     ELSE \* a promise: asyncify_start_unwind(DATA_ADDR); this.value = value
          LET r == BindingCall(frame.op, <<frame.call, frame.k>>, memory) IN
          /\ calls' = [calls EXCEPT ![c].pc = "unwinding", ![c].hostCalls = @ + 1,
                                    ![c].prom = r.prom, ![c].recv = NoRecv,
                                    ![c].evs = Append(@, Ev("start_unwind", DATA_ADDR))]
          /\ stdout' = IF SinkOf(frame.op) = 1 THEN stdout \o r.chunk ELSE stdout
          /\ stderr' = IF SinkOf(frame.op) = 2 THEN stderr \o r.chunk ELSE stderr
          /\ handled' = IF r.handled >= 0 THEN r.handled ELSE handled
          /\ astate' = StateUnwinding
          /\ value' = HostCall(frame.op, c)
          /\ UNCHANGED <<frame, cur>>
  /\ UNCHANGED <<wasiVars, mode, runP, memory, aborted, data>>

\* The implementation behind WasiOp finishes: it returns, or throws one of errs.
ImplFinish(c, errs) ==
  /\ cur = 0
  /\ calls[c].prom.st = "pending"
  /\ calls[c].prom.impl = "running"
  /\ calls[c].prom.op.name = "wasi"
  /\ \/ calls' = [calls EXCEPT ![c].prom = ImplOk(@)]
     \/ \E err \in errs : calls' = [calls EXCEPT ![c].prom = ImplThrew(@, err)]
  /\ UNCHANGED <<wasiVars, mode, runP, memory, aborted, astate, data, frame, value, cur,
                 stdout, stderr, handled>>

\* _forEachIoVec after `await cb(buf)` of io-vector step-1: this._checkAbort();
\* totalHandled += handled; then the next io-vector is handed to the sink, or, after
\* the last one, size_t.set(handledPtr, totalHandled).
FdWriteStep(c) ==
  /\ cur = 0
  /\ calls[c].prom.st = "pending"
  /\ calls[c].prom.impl = "running"
  /\ calls[c].prom.op.name = "fd_write"
  /\ LET p == calls[c].prom IN
     IF checkAbort(aborted) # NoErr
     THEN /\ calls' = [calls EXCEPT ![c].prom = ImplThrew(@, checkAbort(aborted))]
          /\ UNCHANGED <<stdout, stderr, handled>>
     ELSE IF p.step < p.op.n
     THEN /\ calls' = [calls EXCEPT ![c].prom.step = @ + 1]
          /\ stdout' = IF SinkOf(p.op) = 1
                       THEN Append(stdout, Chunk(p.owner, p.step)) ELSE stdout
          /\ stderr' = IF SinkOf(p.op) = 2
                       THEN Append(stderr, Chunk(p.owner, p.step)) ELSE stderr
          /\ UNCHANGED handled
     ELSE /\ calls' = [calls EXCEPT ![c].prom = ImplOk(@)]
          /\ handled' = p.step
          /\ UNCHANGED <<stdout, stderr>>
  /\ UNCHANGED <<wasiVars, mode, runP, memory, aborted, astate, data, frame, value, cur>>

\* The dispatch wrapper after its `await value(...args)`: the try's
\* this._checkAbort(); return E.SUCCESS, or the catch's return translateError(err).
DispatchSettle(c) ==
  /\ cur = 0
  /\ calls[c].prom.st = "pending"
  /\ calls[c].prom.impl \in {"ok", "threw"}
  /\ calls' = [calls EXCEPT ![c].prom =
       IF @.impl = "ok" THEN dispatchReturn(@, aborted) ELSE dispatchCatch(@, @.ierr)]
  /\ UNCHANGED <<wasiVars, mode, runP, memory, aborted, astate, data, frame, value, cur,
                 stdout, stderr, handled>>

\* The embedder's AbortController fires.
Abort ==
  /\ cur = 0
  /\ ~aborted
  /\ aborted' = TRUE
  /\ UNCHANGED <<wasiVars, mode, runP, memory, astate, data, frame, value, cur, calls,
                 stdout, stderr, handled>>

\* ---------------------------------------------------------- Bindings.run
\* run() up to `await _start()`: this.memory is set and _start is called without
\* arguments.
Run ==
  /\ mode = "run"
  /\ runP.st = "init"
  /\ cur = 0
  /\ memory' = TRUE
  /\ runP' = [runP EXCEPT !.st = "awaiting"]
  /\ Enter(1, <<>>)
  /\ UNCHANGED <<wasiVars, mode, aborted, astate, data, frame, value, stdout, stderr, handled>>

\* Faulty variant: the catch block re-throws whatever it caught.
runCatchRethrow(p, err) == [p EXCEPT !.st = "rejected", !.err = err]

\* The catch block of run().
runCatch(p, err) ==
  IF err.cls = "ExitStatus"
  THEN [p EXCEPT !.st = "resolved", !.val = err.code]
  ELSE [p EXCEPT !.st = "rejected", !.err = err]

\* run() after `await _start()`: return 0, or the catch block.
RunSettle ==
  /\ mode = "run"
  /\ runP.st = "awaiting"
  /\ cur = 0
  /\ calls[1].pc \in {"done", "rejected"}
  /\ runP' = IF calls[1].pc = "done"
             THEN [runP EXCEPT !.st = "resolved", !.val = 0]
             ELSE runCatch(runP, calls[1].err)
  /\ UNCHANGED <<wasiVars, mode, memory, aborted, astate, data, frame, value, cur, calls,
                 stdout, stderr, handled>>

\* ------------------------------------------------------- the fd table
\* What a binding works on: the fd table, the host files, the streams and guest memory.
St ==
  [openFiles |-> openFiles, host |-> host, stdin |-> stdin, gmem |-> gmem,
   stdout |-> stdout, stderr |-> stderr, floating |-> floating]

\* What an implementation did: the value it threw (NoErr: it returned) and the state
\* it left.
Outcome(err, st) == [err |-> err, st |-> st]

\* OpenFiles.getPreOpen(fd): the pre-open at fd, else SystemError(BADF).
IsPreOpen(st, fd) == st.openFiles[fd].kind = "preopen"

\* OpenFiles.get(fd): the open file or directory at fd, else SystemError(BADF).
IsOpen(st, fd) == st.openFiles[fd].kind \in {"file", "dir", "preopen"}

\* The descriptor OpenFiles.open allocates: the lowest one not in use.
FreeFds(st) == {fd \in Fds : fd >= FIRST_PREOPEN_FD /\ st.openFiles[fd].kind = "none"}
NextFd(st) == CHOOSE fd \in FreeFds(st) : \A other \in FreeFds(st) : fd <= other

HasFlag(flags, bit) == (flags \div bit) % 2 = 1
ClearFlag(flags, bit) == IF HasFlag(flags, bit) THEN flags - bit ELSE flags

\* OpenFiles.open(preOpen, relPath, oFlags): the path is resolved below the pre-open;
\* a missing path is created as a file under Create and fails with NotFoundError
\* (NOENT) otherwise; the entry gets the lowest unused descriptor.
open(st, path, oFlags) ==
  LET made == IF st.host[path].kind = "absent" /\ HasFlag(oFlags, OpenFlagsCreate)
              THEN [st EXCEPT !.host[path] = HostFile(<<>>)]
              ELSE st
      entry == IF made.host[path].kind = "dir"
               THEN OpenDirectory(path) ELSE OpenFile(path)
  IN IF made.host[path].kind = "absent"
     THEN [err |-> HostError("NotFoundError"), fd |-> 0, st |-> st]
     ELSE [err |-> NoErr, fd |-> NextFd(st),
           st |-> [made EXCEPT !.openFiles[NextFd(st)] = entry]]

\* OpenFiles.close(fd): closing 0, 1 or 2 does nothing; otherwise the open file or
\* directory is released and its entry removed, SystemError(BADF) when there is none.
\* The pre-opens stay as they were built.
close(st, fd) ==
  IF fd < FIRST_PREOPEN_FD
  THEN Outcome(NoErr, st)
  ELSE IF st.openFiles[fd].kind \notin {"file", "dir"}
       THEN Outcome(SystemError(BADF), st)
       ELSE Outcome(NoErr, [st EXCEPT !.openFiles[fd] = NoEntry])

\* ------------------------------------------------------ the WASI bindings
\* Faulty variant: unimplemented logs and returns.
unimplementedReturns(st) == Outcome(NoErr, st)

\* function unimplemented(msg): throw new SystemError(E.NOSYS)
unimplemented(st) == Outcome(SystemError(NOSYS), st)

\* Faulty variant: fsFlags is not looked at.
path_openAnyFlags(st, hasMemory, dirFd, path, oFlags, fsFlags) ==
  IF ~hasMemory
  THEN Outcome(MemoryError, st)
  ELSE IF ~IsPreOpen(st, dirFd)
       THEN Outcome(SystemError(BADF), st)
       ELSE LET o == open(st, path, oFlags)
            IN IF o.err # NoErr
               THEN Outcome(o.err, st)
               ELSE Outcome(NoErr, [o.st EXCEPT !.gmem.fd = o.fd])

\* path_open: NonBlock is cleared from fsFlags, any flag left is unimplemented; then
\* fd_t.set(this._getBuffer(), fdPtr, await this._openFiles.open(getPreOpen(dirFd),
\* path, oFlags)), its operands evaluated from left to right.
path_open(st, hasMemory, dirFd, path, oFlags, fsFlags) ==
  IF ClearFlag(fsFlags, FdFlagsNonBlock) # 0
  THEN unimplemented(st)
  ELSE IF ~hasMemory
       THEN Outcome(MemoryError, st)
       ELSE IF ~IsPreOpen(st, dirFd)
            THEN Outcome(SystemError(BADF), st)
            ELSE LET o == open(st, path, oFlags)
                 IN IF o.err # NoErr
                    THEN Outcome(o.err, st)
                    ELSE Outcome(NoErr, [o.st EXCEPT !.gmem.fd = o.fd])

\* The bindings that are not implemented: each only calls unimplemented().
path_rename(st) == unimplemented(st)
path_link(st) == unimplemented(st)
path_symlink(st) == unimplemented(st)
path_readlink(st) == unimplemented(st)
path_filestat_set_times(st) == unimplemented(st)
fd_fdstat_set_flags(st) == unimplemented(st)

UnimplementedNames ==
  {"path_rename", "path_link", "path_symlink", "path_readlink",
   "path_filestat_set_times", "fd_fdstat_set_flags"}

\* Faulty variant: fd_close reports success without going to the fd table.
fd_closeNothing(st, fd) == Outcome(NoErr, st)

\* fd_close: return this._openFiles.close(fd)
fd_close(st, fd) == close(st, fd)

\* OpenFiles.get(fd).asFile(): SystemError(BADF) without an entry, SystemError(ISDIR)
\* for a directory; NoErr when fd is an open file.
asFile(st, fd) ==
  IF ~IsOpen(st, fd) THEN SystemError(BADF)
  ELSE IF st.openFiles[fd].kind # "file" THEN SystemError(ISDIR)
  ELSE NoErr

Min(a, b) == IF a <= b THEN a ELSE b
Take(seq, n) == SubSeq(seq, 1, Min(n, Len(seq)))
Drop(seq, n) == SubSeq(seq, Min(n, Len(seq)) + 1, Len(seq))

\* The bytes of the file behind the open file at fd.
FileData(st, fd) == st.host[st.openFiles[fd].path].data

\* OpenFile.read(len): up to len bytes from the position, which advances by what was
\* read.
FileRead(st, fd, len) ==
  LET chunk == Take(Drop(FileData(st, fd), st.openFiles[fd].position), len)
  IN [chunk |-> chunk,
      st |-> [st EXCEPT !.openFiles[fd].position = @ + Len(chunk)]]

\* OpenFile.write(data): the bytes replace and extend the file from the position on
\* (a gap is filled with zero bytes), and the position advances by their number.
Zeros(n) == [i \in 1..n |-> 0]
FileWrite(st, fd, bytes) ==
  LET old == FileData(st, fd)
      position == st.openFiles[fd].position
      padded == IF Len(old) < position THEN old \o Zeros(position - Len(old)) ELSE old
      new == Take(padded, position) \o bytes \o Drop(padded, position + Len(bytes))
  IN [st EXCEPT !.host[st.openFiles[fd].path].data = new,
                !.openFiles[fd].position = @ + Len(bytes),
                !.openFiles[fd].dirty = TRUE]

\* Faulty variant of bufferIn: the buffer keeps the bytes it has handed out.
bufferInKeeps(st, len) == [chunk |-> Take(st.stdin, len), st |-> st]

\* bufferIn(buffer).read(len): chunk = buffer.subarray(0, len); buffer = the rest.
bufferIn(st, len) ==
  [chunk |-> Take(st.stdin, len), st |-> [st EXCEPT !.stdin = Drop(@, len)]]

\* The callback fd_read hands to _forEachIoVec: chunk = await input.read(buf.length);
\* buf.set(chunk); return chunk.length.
ReadCb(st, fd, buf) ==
  LET r == IF fd = 0 THEN bufferIn(st, Len(buf)) ELSE FileRead(st, fd, Len(buf))
  IN [handled |-> Len(r.chunk),
      st |-> [r.st EXCEPT !.gmem.bufs = Append(@, r.chunk)]]

\* Faulty variant of the callback: the bytes for fd 1 go to stderr and those for fd 2
\* to stdout.
WriteCbSwapped(st, fd, buf) ==
  [handled |-> Len(buf),
   st |-> CASE fd = 1 -> [st EXCEPT !.stderr = @ \o buf]
            [] fd = 2 -> [st EXCEPT !.stdout = @ \o buf]
            [] OTHER -> FileWrite(st, fd, buf)]

\* The callback fd_write hands to _forEachIoVec: await out.write(data); return
\* data.length.
WriteCb(st, fd, buf) ==
  [handled |-> Len(buf),
   st |-> CASE fd = 1 -> [st EXCEPT !.stdout = @ \o buf]
            [] fd = 2 -> [st EXCEPT !.stderr = @ \o buf]
            [] OTHER -> FileWrite(st, fd, buf)]

\* Faulty variant of the loop's exit test: a short io-vector does not end the loop.
ShortNever(done, bufLen) == FALSE

\* if (handled < iovec.bufLen) break
Short(done, bufLen) == done < bufLen

\* _forEachIoVec from io-vector i on, with totalHandled = total: the callback handles
\* the io-vector, this._checkAbort(), totalHandled += handled, a short io-vector ends
\* the loop; after the loop size_t.set(this._getBuffer(), handledPtr, totalHandled).
\* fireAt = k > 0: the abort signal fires while io-vector k is handled.
RECURSIVE forEachIoVec(_, _, _, _, _, _, _, _)
forEachIoVec(st, isRead, fd, iovs, i, total, wasAborted, fireAt) ==
  IF i > Len(iovs)
  THEN Outcome(NoErr, [st EXCEPT !.gmem.n = total])
  ELSE LET r == IF isRead THEN ReadCb(st, fd, iovs[i]) ELSE WriteCb(st, fd, iovs[i])
       IN IF checkAbort(wasAborted \/ (fireAt # 0 /\ fireAt <= i)) # NoErr
          THEN Outcome(checkAbort(wasAborted \/ (fireAt # 0 /\ fireAt <= i)), r.st)
          ELSE IF Short(r.handled, Len(iovs[i]))
               THEN Outcome(NoErr, [r.st EXCEPT !.gmem.n = total + r.handled])
               ELSE forEachIoVec(r.st, isRead, fd, iovs, i + 1, total + r.handled,
                                 wasAborted, fireAt)

\* fd_read: input = fd === 0 ? this._stdIn : this._openFiles.get(fd).asFile(); then
\* _forEachIoVec, whose first statement reads guest memory.
fd_read(st, hasMemory, fd, iovs, wasAborted, fireAt) ==
  IF fd # 0 /\ asFile(st, fd) # NoErr THEN Outcome(asFile(st, fd), st)
  ELSE IF ~hasMemory THEN Outcome(MemoryError, st)
  ELSE forEachIoVec([st EXCEPT !.gmem.bufs = <<>>], TRUE, fd, iovs, 1, 0,
                    wasAborted, fireAt)

\* Faulty variant of fd_write: the abort signal is not looked at between io-vectors.
fd_writeNoAbort(st, hasMemory, fd, iovs, wasAborted, fireAt) ==
  IF fd \notin {1, 2} /\ asFile(st, fd) # NoErr THEN Outcome(asFile(st, fd), st)
  ELSE IF ~hasMemory THEN Outcome(MemoryError, st)
  ELSE forEachIoVec(st, FALSE, fd, iovs, 1, 0, FALSE, 0)

\* fd_write: out = stdout for fd 1, stderr for fd 2, else
\* this._openFiles.get(fd).asFile(); then _forEachIoVec.
fd_write(st, hasMemory, fd, iovs, wasAborted, fireAt) ==
  IF fd \notin {1, 2} /\ asFile(st, fd) # NoErr THEN Outcome(asFile(st, fd), st)
  ELSE IF ~hasMemory THEN Outcome(MemoryError, st)
  ELSE forEachIoVec(st, FALSE, fd, iovs, 1, 0, wasAborted, fireAt)

\* OpenFile.flush(): the written bytes the open file holds go to the host file;
\* flushing again changes nothing.
flush(st, fd) == [st EXCEPT !.openFiles[fd].dirty = FALSE]

\* fd_datasync: return this._openFiles.get(fd).asFile().flush()
fd_datasync(st, fd) ==
  IF asFile(st, fd) # NoErr THEN Outcome(asFile(st, fd), st)
  ELSE Outcome(NoErr, flush(st, fd))

\* fd_sync: openFile = this._openFiles.get(fd); if (openFile.isFile) await
\* openFile.flush()
fd_sync(st, fd) ==
  IF ~IsOpen(st, fd) THEN Outcome(SystemError(BADF), st)
  ELSE IF st.openFiles[fd].kind = "file" THEN Outcome(NoErr, flush(st, fd))
  ELSE Outcome(NoErr, st)

\* OpenFiles.get(fd).asDir(): SystemError(BADF) without an entry, SystemError(NOTDIR)
\* for a file; NoErr when fd is a directory (a pre-open is one).
asDir(st, fd) ==
  IF ~IsOpen(st, fd) THEN SystemError(BADF)
  ELSE IF st.openFiles[fd].kind = "file" THEN SystemError(NOTDIR)
  ELSE NoErr

\* The order in which the host enumerates the sandbox.
PathOrder == <<"f", "d", "x">>

\* The entries {name, kind} of the directory behind fd, in the host's order: the
\* sandbox holds what exists at the paths, the directory d is empty.
DirEntries(st, fd) ==
  LET Present(path) == st.host[path].kind # "absent"
      names == IF st.openFiles[fd].kind = "preopen"
               THEN SelectSeq(PathOrder, Present) ELSE <<>>
  IN [i \in 1..Len(names) |-> [name |-> names[i], kind |-> st.host[names[i]].kind]]

\* OpenDirectory.getEntries(pos): the enumeration restarted at the 0-based position
\* pos.  entries.revert(handle) pushes the entry back: the enumeration is positional,
\* so the entry is yielded again by the enumeration from its position.
getEntries(st, fd, pos) == Drop(DirEntries(st, fd), pos)

\* Faulty variant of the item size: the name is not counted.
ItemSizeNoName(entry) == DirentSize

\* const itemSize = dirent_t.size + name.length
ItemSize(entry) == DirentSize + Len(entry.name)

\* What fd_readdir writes for an entry after ++cookie: dirent_t {next, ino, nameLen,
\* type} and the name behind it.
dirent(entry, cookie) ==
  [next |-> cookie, ino |-> 0, nameLen |-> Len(entry.name),
   type |-> entry.kind, name |-> entry.name]

\* The loop of fd_readdir over entries from the i-th on, with used = bufPtr -
\* initialBufPtr: this._checkAbort(), an entry that does not fit in bufLen is reverted
\* and ends the loop, else its dirent is written with next = ++cookie; after the loop
\* size_t.set(this._getBuffer(), bufUsedPtr, bufPtr - initialBufPtr).
\* fireAt = k > 0: the abort signal fires while entry k is fetched.
RECURSIVE readdirLoop(_, _, _, _, _, _, _, _)
readdirLoop(st, entries, i, bufLen, cookie, used, wasAborted, fireAt) ==
  IF i > Len(entries)
  THEN Outcome(NoErr, [st EXCEPT !.gmem.used = used])
  ELSE IF checkAbort(wasAborted \/ (fireAt # 0 /\ fireAt <= i)) # NoErr
  THEN Outcome(checkAbort(wasAborted \/ (fireAt # 0 /\ fireAt <= i)), st)
  ELSE IF bufLen < ItemSize(entries[i])
  THEN Outcome(NoErr, [st EXCEPT !.gmem.used = used])
  ELSE readdirLoop([st EXCEPT !.gmem.dirents = Append(@, dirent(entries[i], cookie + 1))],
                   entries, i + 1, bufLen - ItemSize(entries[i]), cookie + 1,
                   used + ItemSize(entries[i]), wasAborted, fireAt)

\* fd_readdir: openDir = this._openFiles.get(fd).asDir(); entries =
\* openDir.getEntries(Number(cookie)); then the loop, which writes to guest memory.
fd_readdir(st, hasMemory, fd, bufLen, cookie, wasAborted, fireAt) ==
  IF asDir(st, fd) # NoErr THEN Outcome(asDir(st, fd), st)
  ELSE IF ~hasMemory THEN Outcome(MemoryError, st)
  ELSE readdirLoop([st EXCEPT !.gmem.dirents = <<>>], getEntries(st, fd, cookie), 1,
                   bufLen, cookie, 0, wasAborted, fireAt)

\* The loop of StringCollection's constructor from the i-th string on:
\* this._offsets[i] = this._buffer.length; this._buffer += `${s}\0`.
RECURSIVE Pack(_, _, _)
Pack(strings, i, sc) ==
  IF i > Len(strings) THEN sc
  ELSE Pack(strings, i + 1,
            [offsets |-> Append(sc.offsets, Len(sc.buffer)),
             buffer |-> sc.buffer \o strings[i] \o <<NUL>>])

\* new StringCollection(strings): the offsets and the packed buffer.
StringCollection(strings) == Pack(strings, 1, [offsets |-> <<>>, buffer |-> <<>>])

\* Object.entries(env).map(([key, value]) => `${key}=${value}`)
EnvStrings(entries) ==
  [i \in 1..Len(entries) |-> entries[i][1] \o <<EqualsSign>> \o entries[i][2]]

\* string.set(buf, ptr, value): the characters of value, one byte each, from ptr on.
string_set(mem, ptr, v) ==
  [a \in DOMAIN mem |-> IF a >= ptr /\ a < ptr + Len(v) THEN v[a - ptr + 1] ELSE mem[a]]

\* StringCollection.sizes_get: size_t.set(buf, countPtr, this._offsets.length);
\* size_t.set(buf, sizePtr, this._buffer.length).
sizes_get(st, sc) ==
  [st EXCEPT !.gmem.count = Len(sc.offsets), !.gmem.size = Len(sc.buffer)]

\* Faulty variant of get: the offsets are written as they are, relative to the buffer.
getRelative(st, sc, ptr) ==
  [st EXCEPT !.gmem.ptrs = sc.offsets,
             !.gmem.str = string_set(@, ptr, sc.buffer)]

\* StringCollection.get: the Uint32Array at offsetsPtr is set to
\* this._offsets.map((offset) => ptr + offset); string.set(buf, ptr, this._buffer).
get(st, sc, ptr) ==
  [st EXCEPT !.gmem.ptrs = [i \in 1..Len(sc.offsets) |-> ptr + sc.offsets[i]],
             !.gmem.str = string_set(@, ptr, sc.buffer)]

\* args_sizes_get and environ_sizes_get: this._args.sizes_get(this._getBuffer(), ...).
args_sizes_get(st, hasMemory, strings) ==
  IF ~hasMemory THEN Outcome(MemoryError, st)
  ELSE Outcome(NoErr, sizes_get(st, StringCollection(strings)))
environ_sizes_get(st, hasMemory, strings) == args_sizes_get(st, hasMemory, strings)

\* args_get and environ_get: this._args.get(this._getBuffer(), argvPtr, argvBufPtr).
args_get(st, hasMemory, strings, argvBufPtr) ==
  IF ~hasMemory THEN Outcome(MemoryError, st)
  ELSE Outcome(NoErr, get(st, StringCollection(strings), argvBufPtr))
environ_get(st, hasMemory, strings, environBufPtr) ==
  args_get(st, hasMemory, strings, environBufPtr)

\* PreOpen.delete(path), settled: the host removes the entry at path; it fails with
\* NotAllowedError when the host denies the removal and with NotFoundError when
\* nothing is at path.
delete(st, path, denied) ==
  IF denied THEN Outcome(HostError("NotAllowedError"), st)
  ELSE IF st.host[path].kind = "absent" THEN Outcome(HostError("NotFoundError"), st)
  ELSE Outcome(NoErr, [st EXCEPT !.host[path] = Absent])

\* path_unlink_file: an arrow function that returns the promise of
\* getPreOpen(dirFd).delete(string.get(this._getBuffer(), ...)); the dispatch wrapper
\* awaits it.
path_unlink_file(st, hasMemory, dirFd, path, denied) ==
  IF ~IsPreOpen(st, dirFd) THEN Outcome(SystemError(BADF), st)
  ELSE IF ~hasMemory THEN Outcome(MemoryError, st)
  ELSE delete(st, path, denied)

\* path_remove_directory: the same delete is started, but its promise is neither
\* awaited nor returned; the function returns undefined while the delete is in flight.
path_remove_directory(st, hasMemory, dirFd, path, denied) ==
  IF ~IsPreOpen(st, dirFd) THEN Outcome(SystemError(BADF), st)
  ELSE IF ~hasMemory THEN Outcome(MemoryError, st)
  ELSE Outcome(NoErr,
               [st EXCEPT !.floating = @ \cup {[path |-> path, denied |-> denied]}])

\* A subscription_t as poll_oneoff reads it: the tag of its union, its userdata and,
\* for a clock, the timeout and the precision in milliseconds.
ClockSub(userdata, timeout, precision) ==
  [tag |-> "Clock", userdata |-> userdata, timeout |-> timeout, extra |-> precision]
FdSub(tag, userdata) ==
  [tag |-> tag, userdata |-> userdata, timeout |-> 0, extra |-> 0]

\* addEvent(event): the event is written at eventsPtr, which moves on by event_t.size;
\* k is eventsNum after the call.
addEvent(st, k, event) ==
  [st EXCEPT !.gmem.events = IF k <= Len(@) THEN [@ EXCEPT ![k] = event]
                             ELSE Append(@, event)]

\* Faulty variant: a clock subscription gets an event in the loop as well.
RECURSIVE addFdEventsForAll(_, _, _, _)
addFdEventsForAll(st, subs, i, k) ==
  IF i > Len(subs) THEN [st |-> st, eventsNum |-> k]
  ELSE addFdEventsForAll(addEvent(st, k + 1, [userdata |-> subs[i].userdata,
                                              error |-> NOSYS, type |-> subs[i].tag,
                                              nbytes |-> 0]),
                         subs, i + 1, k + 1)

\* The events of the default case of the switch for the subscriptions from the i-th
\* on, k events having been added.
RECURSIVE addFdEvents(_, _, _, _)
addFdEvents(st, subs, i, k) ==
  IF i > Len(subs) THEN [st |-> st, eventsNum |-> k]
  ELSE IF subs[i].tag = "Clock" THEN addFdEvents(st, subs, i + 1, k)
  ELSE addFdEvents(addEvent(st, k + 1, [userdata |-> subs[i].userdata, error |-> NOSYS,
                                        type |-> subs[i].tag, nbytes |-> 0]),
                   subs, i + 1, k + 1)

\* clockEvents.sort((a, b) => a.timeout - b.timeout): a stable sort by timeout.
RECURSIVE sortByTimeout(_)
sortByTimeout(evs) ==
  IF evs = <<>> THEN <<>>
  ELSE LET IsLess(e) == e.timeout < Head(evs).timeout
           NotLess(e) == ~(e.timeout < Head(evs).timeout)
       IN sortByTimeout(SelectSeq(Tail(evs), IsLess))
            \o <<Head(evs)>> \o sortByTimeout(SelectSeq(Tail(evs), NotLess))

\* Faulty variant: every clock event counts as due.
matchingCountAll(clock, wait) == Len(clock)

\* findIndex((item) => item.timeout > wait), clockEvents.length when there is none: the
\* number of clock events that fall due within wait.
matchingCount(clock, wait) ==
  IF \E i \in 1..Len(clock) : clock[i].timeout > wait
  THEN (CHOOSE i \in 1..Len(clock) :
          /\ clock[i].timeout > wait
          /\ \A j \in 1..(i - 1) : ~(clock[j].timeout > wait)) - 1
  ELSE Len(clock)

\* Faulty variant: without subscriptions the call writes the event count 0 and returns.
poll_oneoffNoCheck(st, hasMemory, subs) ==
  IF Len(subs) = 0
  THEN [sleep |-> FALSE, out |-> Outcome(NoErr, [st EXCEPT !.gmem.nevents = 0]),
        clock |-> <<>>, matching |-> 0, ms |-> 0]
  ELSE IF ~hasMemory
  THEN [sleep |-> FALSE, out |-> Outcome(MemoryError, st), clock |-> <<>>,
        matching |-> 0, ms |-> 0]
  ELSE LET r == addFdEvents(st, subs, 1, 0)
           IsClock(sub) == sub.tag = "Clock"
           clock == sortByTimeout(SelectSeq(subs, IsClock))
           wait == clock[1].timeout + clock[1].extra
           matching == matchingCount(clock, wait)
       IN IF r.eventsNum # 0
          THEN [sleep |-> FALSE,
                out |-> Outcome(NoErr, [r.st EXCEPT !.gmem.nevents = r.eventsNum]),
                clock |-> <<>>, matching |-> 0, ms |-> 0]
          ELSE [sleep |-> TRUE, out |-> Outcome(NoErr, st), clock |-> clock,
                matching |-> matching, ms |-> clock[matching].timeout]

\* poll_oneoff up to its await: the RangeError for no subscription, the loop over the
\* subscriptions, and without any event the timer it is going to wait for.  sleep tells
\* whether the call awaits this._wait(ms); else out is what the call did.
poll_oneoff(st, hasMemory, subs) ==
  IF Len(subs) = 0
  THEN [sleep |-> FALSE, out |-> Outcome(RangeErr, st), clock |-> <<>>, matching |-> 0,
        ms |-> 0]
  ELSE IF ~hasMemory
  THEN [sleep |-> FALSE, out |-> Outcome(MemoryError, st), clock |-> <<>>,
        matching |-> 0, ms |-> 0]
  ELSE LET r == addFdEvents(st, subs, 1, 0)
           IsClock(sub) == sub.tag = "Clock"
           clock == sortByTimeout(SelectSeq(subs, IsClock))
           wait == clock[1].timeout + clock[1].extra
           matching == matchingCount(clock, wait)
       IN IF r.eventsNum # 0
          THEN [sleep |-> FALSE,
                out |-> Outcome(NoErr, [r.st EXCEPT !.gmem.nevents = r.eventsNum]),
                clock |-> <<>>, matching |-> 0, ms |-> 0]
          ELSE [sleep |-> TRUE, out |-> Outcome(NoErr, st), clock |-> clock,
                matching |-> matching, ms |-> clock[matching].timeout]

\* poll_oneoff after its await: one event per clock event that fell due, then
\* size_t.set(this._getBuffer(), eventsNumPtr, eventsNum).
RECURSIVE addClockEvents(_, _, _, _)
addClockEvents(st, clock, i, matching) ==
  IF i > matching THEN [st EXCEPT !.gmem.nevents = matching]
  ELSE addClockEvents(addEvent(st, i, [userdata |-> clock[i].userdata, error |-> SUCCESS,
                                       type |-> "Clock", nbytes |-> 0]),
                      clock, i + 1, matching)

\* Faulty variant of the abort listener: the timer is cleared and the promise resolves,
\* so that poll_oneoff goes on as after the timeout.
waitAbortedResolves(st, t) == Outcome(NoErr, addClockEvents(st, t.clock, 1, t.matching))

\* _wait's abort listener: clearTimeout(id); reject(new SystemError(E.CANCELED)).  The
\* await in poll_oneoff throws, so nothing after it runs.
waitAborted(st, t) == Outcome(SystemError(CANCELED), st)

\* uint64_t.set(buf, ptr, value): a value outside the field's range is a range error.
uint64_set(v) == IF v < 0 THEN RangeErr ELSE NoErr

\* (await openFile.getFile()).size
FileSize(st, fd) == Len(FileData(st, fd))

\* Faulty variant: Whence.Current takes 0 as its base, like Whence.Set.
fd_seekFromStart(st, hasMemory, fd, offset, whence) ==
  IF asFile(st, fd) # NoErr THEN Outcome(asFile(st, fd), st)
  ELSE LET base == IF whence = WhenceEnd THEN FileSize(st, fd) ELSE 0
           moved == [st EXCEPT !.openFiles[fd].position = base + offset]
       IN IF ~hasMemory THEN Outcome(MemoryError, moved)
          ELSE IF uint64_set(base + offset) # NoErr
               THEN Outcome(uint64_set(base + offset), moved)
               ELSE Outcome(NoErr, [moved EXCEPT !.gmem.pos = base + offset])

\* fd_seek: base by whence; openFile.position = base + Number(offset); then
\* uint64_t.set(this._getBuffer(), filesizePtr, BigInt(openFile.position)).
fd_seek(st, hasMemory, fd, offset, whence) ==
  IF asFile(st, fd) # NoErr THEN Outcome(asFile(st, fd), st)
  ELSE LET base == CASE whence = WhenceCurrent -> st.openFiles[fd].position
                     [] whence = WhenceEnd -> FileSize(st, fd)
                     [] whence = WhenceSet -> 0
           moved == [st EXCEPT !.openFiles[fd].position = base + offset]
       IN IF ~hasMemory THEN Outcome(MemoryError, moved)
          ELSE IF uint64_set(base + offset) # NoErr
               THEN Outcome(uint64_set(base + offset), moved)
               ELSE Outcome(NoErr, [moved EXCEPT !.gmem.pos = base + offset])

\* --------------------------------------- WASI calls as the guest sees them
\* The binding behind the file-system calls, in the guest's frame.
FsOp == [name |-> "fs", a |-> 0, n |-> 0]

\* The guest is running _start under run(), where this.memory is set.
InGuest ==
  /\ mode = "run" /\ cur = 1 /\ calls[1].pc = "guest" /\ ncalls < MaxCalls
  /\ timer.st # "pending"

\* One call of a WASI import by the guest, from the call of the dispatch wrapper to
\* the value the guest gets back (the suspension cycle in between changes nothing
\* else).  out is what the implementation did; fire tells whether the abort signal
\* fires while the call is awaited.  The wrapper returns SUCCESS after _checkAbort(),
\* or translateError(err); what translateError re-throws ends the export call.
WasiReturn(req, out, fire) ==
  /\ aborted' = (aborted \/ fire)
  /\ ncalls' = ncalls + 1
  /\ LET p0 == Pending(<<1, ncalls>>, FsOp)
         p == IF out.err = NoErr
              THEN dispatchReturn(ImplOk(p0), aborted \/ fire)
              ELSE dispatchCatch(ImplThrew(p0, out.err), out.err)
     IN /\ openFiles' = out.st.openFiles
        /\ host' = out.st.host
        /\ stdin' = out.st.stdin
        /\ gmem' = out.st.gmem
        /\ stdout' = out.st.stdout
        /\ stderr' = out.st.stderr
        /\ floating' = out.st.floating
        /\ IF p.st = "fulfilled"
           THEN /\ last' = [req EXCEPT !.ret = p.val.v]
                /\ UNCHANGED <<cur, calls>>
           ELSE /\ calls' = [calls EXCEPT ![1].pc = "rejected", ![1].err = p.err,
                                          ![1].prom = p]
                /\ cur' = 0
                /\ last' = req
  /\ UNCHANGED <<mode, runP, memory, astate, data, frame, value, handled, argv, env,
                 unhandled, wrappers>>

\* A call that does not wait for a timer.
WasiCall(req, out, fire) ==
  /\ InGuest
  /\ WasiReturn(req, out, fire)
  /\ UNCHANGED timer

PathOpen(dirFd, path, oFlags, fsFlags, fire) ==
  /\ FreeFds(St) # {}
  /\ WasiCall(Req("path_open", dirFd, path, oFlags, fsFlags, <<>>),
              path_open(St, memory, dirFd, path, oFlags, fsFlags), fire)

FdClose(fd, fire) ==
  WasiCall(Req("fd_close", fd, "", 0, 0, <<>>), fd_close(St, fd), fire)

\* The record of the call keeps fireAt in y (history).
FdRead(fd, iovs, fireAt) ==
  /\ fireAt <= Len(iovs)
  /\ WasiCall(Req("fd_read", fd, "", 0, fireAt, iovs),
              fd_read(St, memory, fd, iovs, aborted, fireAt), fireAt # 0)

\* The bytes of a list of io-vectors, in order.
RECURSIVE Concat(_)
Concat(iovs) == IF iovs = <<>> THEN <<>> ELSE Head(iovs) \o Concat(Tail(iovs))

\* The guest writes to a file only as long as the file stays within MaxFileLen.
FdWrite(fd, iovs, fireAt) ==
  /\ fireAt <= Len(iovs)
  /\ (fd \notin {1, 2} /\ asFile(St, fd) = NoErr) =>
       openFiles[fd].position + Len(Concat(iovs)) <= MaxFileLen
  /\ WasiCall(Req("fd_write", fd, "", 0, fireAt, iovs),
              fd_write(St, memory, fd, iovs, aborted, fireAt), fireAt # 0)

FdReaddir(fd, bufLen, cookie, fireAt) ==
  WasiCall(Req("fd_readdir", fd, "", bufLen, cookie, <<>>),
           fd_readdir(St, memory, fd, bufLen, cookie, aborted, fireAt), fireAt # 0)

ArgsSizesGet(fire) ==
  WasiCall(Req("args_sizes_get", 0, "", 0, 0, <<>>),
           args_sizes_get(St, memory, argv), fire)

ArgsGet(argvBufPtr, fire) ==
  WasiCall(Req("args_get", 0, "", argvBufPtr, 0, <<>>),
           args_get(St, memory, argv, argvBufPtr), fire)

EnvironSizesGet(fire) ==
  WasiCall(Req("environ_sizes_get", 0, "", 0, 0, <<>>),
           environ_sizes_get(St, memory, EnvStrings(env)), fire)

EnvironGet(environBufPtr, fire) ==
  WasiCall(Req("environ_get", 0, "", environBufPtr, 0, <<>>),
           environ_get(St, memory, EnvStrings(env), environBufPtr), fire)

\* denied: the host refuses the removal.
PathUnlinkFile(dirFd, path, denied, fire) ==
  WasiCall(Req("path_unlink_file", dirFd, path, 0, IF denied THEN 1 ELSE 0, <<>>),
           path_unlink_file(St, memory, dirFd, path, denied), fire)

PathRemoveDirectory(dirFd, path, denied, fire) ==
  WasiCall(Req("path_remove_directory", dirFd, path, 0, IF denied THEN 1 ELSE 0, <<>>),
           path_remove_directory(St, memory, dirFd, path, denied), fire)

\* A delete in flight settles: the host has removed the entry, or the promise rejects
\* and, nothing being attached to it, the rejection is unhandled.
FloatSettle ==
  \E d \in floating :
    LET out == delete(St, d.path, d.denied)
    IN /\ floating' = floating \ {d}
       /\ host' = out.st.host
       /\ unhandled' = IF out.err = NoErr THEN unhandled ELSE unhandled \cup {out.err}
       /\ UNCHANGED <<mode, runP, memory, aborted, astate, data, frame, value, cur, calls,
                      stdout, stderr, handled, openFiles, stdin, gmem, last, ncalls,
                      argv, env, timer, wrappers>>

\* The guest calls poll_oneoff: the call returns (or throws) at once, or it sets the
\* timer of _wait and awaits it.
PollOneoff(subs, fire) ==
  LET req == Req("poll_oneoff", 0, "", Len(subs), 0, subs)
      r == poll_oneoff(St, memory, subs)
  IN IF r.sleep
     THEN /\ InGuest
          /\ timer' = [st |-> "pending", ms |-> r.ms, req |-> req, clock |-> r.clock,
                        matching |-> r.matching]
          /\ UNCHANGED <<mode, runP, memory, aborted, astate, data, frame, value, cur,
                         calls, stdout, stderr, handled, openFiles, host, stdin, gmem,
                         last, ncalls, argv, env, floating, unhandled, wrappers>>
     ELSE WasiCall(req, r.out, fire)

\* setTimeout(resolve, ms) elapses: poll_oneoff goes on after its await and returns.
PollWake ==
  /\ timer.st = "pending"
  /\ timer' = [NoTimer EXCEPT !.st = "fired"]
  /\ WasiReturn(timer.req,
                Outcome(NoErr, addClockEvents(St, timer.clock, 1, timer.matching)), FALSE)

\* The abort signal fires while the timer is pending: the listener _wait added calls
\* clearTimeout(id) and rejects the promise with SystemError(CANCELED).
PollAbort ==
  /\ timer.st = "pending"
  /\ ~aborted
  /\ timer' = [NoTimer EXCEPT !.st = "cleared"]
  /\ WasiReturn(timer.req, waitAborted(St, timer), TRUE)

FdSeek(fd, offset, whence, fire) ==
  WasiCall(Req("fd_seek", fd, "", offset, whence, <<>>),
           fd_seek(St, memory, fd, offset, whence), fire)

FdDatasync(fd, fire) ==
  WasiCall(Req("fd_datasync", fd, "", 0, 0, <<>>), fd_datasync(St, fd), fire)

FdSync(fd, fire) ==
  WasiCall(Req("fd_sync", fd, "", 0, 0, <<>>), fd_sync(St, fd), fire)

\* A call of one of the bindings that are not implemented, with any descriptor and
\* path among its arguments.
Unimplemented(name, fd, path, fire) ==
  WasiCall(Req(name, fd, path, 0, 0, <<>>),
           CASE name = "path_rename" -> path_rename(St)
             [] name = "path_link" -> path_link(St)
             [] name = "path_symlink" -> path_symlink(St)
             [] name = "path_readlink" -> path_readlink(St)
             [] name = "path_filestat_set_times" -> path_filestat_set_times(St)
             [] name = "fd_fdstat_set_flags" -> fd_fdstat_set_flags(St),
           fire)

\* ------------------------------------------------------- specifications
\* What every specification shares: the controller, the guest's own steps, the
\* dispatch wrapper, the driver and the abort signal.
Controller ==
  \/ \E c \in CallIds : InvokeGuest(c)
  \/ \E c \in CallIds : GuestReturn(c)
  \/ \E c \in CallIds : wrapImportFn(c)
  \/ \E c \in CallIds : GuestUnwind(c)
  \/ \E c \in CallIds : StopUnwind(c)
  \/ \E c \in CallIds : ExportReturn(c)
  \/ \E c \in CallIds : AwaitResume(c)
  \/ \E c \in CallIds : ReinvokeGuest(c)
  \/ \E c \in CallIds : DispatchSettle(c)
  \/ Abort
  \/ Run
  \/ RunSettle

\* The embedder awaits each export call before it makes the next one (as run() and
\* the tests do); the guest calls plain imports, generic WASI bindings and proc_exit.
Next ==
  \/ \E c \in CallIds, args \in ArgLists : CallExport(c, args, FALSE)
  \/ \E c \in CallIds, op \in CoreOps : GuestCallImport(c, op)
  \/ \E c \in CallIds : ImplFinish(c, Thrown)
  \/ Controller

Spec == Init /\ [][Next]_vars

\* The embedder may call an export while another call is pending; the guest calls
\* plain imports and generic WASI bindings, which return, fail with a code or throw.
OverlapThrown == {SystemError(BADF), OtherThrown}

NextOverlap ==
  \/ \E c \in CallIds, args \in ArgLists : CallExport(c, args, TRUE)
  \/ \E c \in CallIds, op \in {SyncOp, WasiOp} : GuestCallImport(c, op)
  \/ \E c \in CallIds : ImplFinish(c, OverlapThrown)
  \/ Controller

SpecOverlap == Init /\ [][NextOverlap]_vars

\* Serial calls of a guest that writes to stdout and stderr.
NextIo ==
  \/ \E c \in CallIds, args \in ArgLists : CallExport(c, args, FALSE)
  \/ \E c \in CallIds, op \in IoOps : GuestCallImport(c, op)
  \/ \E c \in CallIds : FdWriteStep(c)
  \/ Controller

SpecIo == Init /\ [][NextIo]_vars

\* The guest works on files through the fd table: path_open, fd_close and the calls on
\* open descriptors, while the embedder may abort.
\* The io-vector lists of the guest: up to MaxIovs buffers of one or two bytes.
IoBufs == {<<1>>, <<2, 3>>}
IoVecs == UNION {[1..n -> IoBufs] : n \in 0..MaxIovs}
Offsets == {-1, 0, 1}
\* The descriptors from the pre-open on.
DynFds == {fd \in Fds : fd >= FIRST_PREOPEN_FD}

FlagSets == {0, FdFlagsNonBlock, FdFlagsAppend, FdFlagsNonBlock + FdFlagsAppend}

NextFd1 ==
  \/ Run
  \/ InvokeGuest(1)
  \/ \E path \in Paths, oFlags \in {0, OpenFlagsCreate}, fsFlags \in FlagSets,
        fire \in BOOLEAN : PathOpen(FIRST_PREOPEN_FD, path, oFlags, fsFlags, fire)
  \/ \E fd \in Fds, fire \in BOOLEAN : FdClose(fd, fire)
  \/ \E fd \in DynFds, fireAt \in 0..1 : FdRead(fd, <<<<1>>>>, fireAt)
  \/ \E fd \in DynFds, fireAt \in 0..1 : FdWrite(fd, <<<<1>>>>, fireAt)
  \/ \E fd \in DynFds, offset \in Offsets, whence \in {WhenceCurrent, WhenceEnd, WhenceSet},
        fire \in BOOLEAN : FdSeek(fd, offset, whence, fire)
  \/ \E name \in UnimplementedNames, fd \in DynFds, path \in {"f"}, fire \in BOOLEAN :
        Unimplemented(name, fd, path, fire)
  \/ GuestReturn(1)
  \/ ExportReturn(1)
  \/ RunSettle

SpecFd == Init /\ [][NextFd1]_vars

\* The guest reads stdin and files and writes stdout, stderr and files with lists of
\* io-vectors, in up to MaxCalls - 1 calls, while the embedder may abort.
NextRw ==
  \/ Run
  \/ InvokeGuest(1)
  \/ \E path \in {"f", "x"} :
        /\ ncalls < MaxCalls - 1
        /\ PathOpen(FIRST_PREOPEN_FD, path, OpenFlagsCreate, 0, FALSE)
  \/ \E fd \in {0, FIRST_PREOPEN_FD + 1}, iovs \in IoVecs, fireAt \in 0..MaxIovs :
        /\ ncalls < MaxCalls - 1
        /\ FdRead(fd, iovs, fireAt)
  \/ \E fd \in {1, FIRST_PREOPEN_FD + 1}, iovs \in IoVecs, fireAt \in 0..1 :
        /\ ncalls < MaxCalls - 1
        /\ FdWrite(fd, iovs, fireAt)
  \/ GuestReturn(1)
  \/ ExportReturn(1)
  \/ RunSettle

SpecRw == Init /\ [][NextRw]_vars

\* The embedder wraps a guest export (wrapExports, or a caller-supplied lookup).
WrapExport(fn) ==
  /\ wrappers.made < MaxWrappers
  /\ LET r == wrapExportFn(wrappers, fn)
     IN wrappers' = [r.w EXCEPT !.got[fn] = @ \cup {r.handle}]
  /\ UNCHANGED <<mode, runP, memory, aborted, astate, data, frame, value, cur, calls,
                 stdout, stderr, handled, openFiles, host, stdin, gmem, last, ncalls,
                 argv, env, floating, unhandled, timer>>

\* A host import is looked up through the wrapped import object.
LookupImport(fn) ==
  /\ wrappers.made < MaxWrappers
  /\ LET r == proxyGet(wrappers, fn)
     IN wrappers' = [r.w EXCEPT !.got[fn] = @ \cup {r.handle}]
  /\ UNCHANGED <<mode, runP, memory, aborted, astate, data, frame, value, cur, calls,
                 stdout, stderr, handled, openFiles, host, stdin, gmem, last, ncalls,
                 argv, env, floating, unhandled, timer>>

\* Exports are wrapped and imports are looked up any number of times, in any order.
NextWrap ==
  \/ \E fn \in GuestExports : WrapExport(fn)
  \/ \E fn \in HostImports : LookupImport(fn)

SpecWrap == Init /\ [][NextWrap]_vars

\* The guest opens files and a directory, writes to the files and syncs any
\* descriptor, in up to MaxCalls calls, while the embedder may abort.
NextSync ==
  \/ Run
  \/ InvokeGuest(1)
  \/ \E path \in {"f", "d"} : PathOpen(FIRST_PREOPEN_FD, path, 0, 0, FALSE)
  \/ \E fd \in DynFds : FdWrite(fd, <<<<1>>>>, 0)
  \/ \E fd \in Fds, fire \in BOOLEAN : FdDatasync(fd, fire)
  \/ \E fd \in Fds, fire \in BOOLEAN : FdSync(fd, fire)
  \/ GuestReturn(1)
  \/ ExportReturn(1)
  \/ RunSettle

SpecSync == Init /\ [][NextSync]_vars

\* The guest writes to stdout and stderr with lists of io-vectors, in up to
\* MaxCalls - 1 calls, while the embedder may abort.
NextOut ==
  \/ Run
  \/ InvokeGuest(1)
  \/ \E fd \in {1, 2}, iovs \in IoVecs, fireAt \in 0..MaxIovs :
        /\ ncalls < MaxCalls - 1
        /\ FdWrite(fd, iovs, fireAt)
  \/ GuestReturn(1)
  \/ ExportReturn(1)
  \/ RunSettle

SpecOut == Init /\ [][NextOut]_vars

\* The guest's buffer lengths for fd_readdir: none, less than a dirent, one entry, two
\* entries and a rest.
BufLens == {0, DirentSize, DirentSize + 1, 2 * DirentSize + 3}
\* The cookies the guest passes: 0 and the next cookies of the sandbox's entries.
Cookies == 0..Len(PathOrder)

\* The guest opens and creates files and directories below the sandbox and reads the
\* sandbox and the opened directories with fd_readdir, in up to MaxCalls - 1 calls,
\* while the embedder may abort.
NextDir ==
  \/ Run
  \/ InvokeGuest(1)
  \/ \E path \in Paths :
        /\ ncalls < MaxCalls - 1
        /\ PathOpen(FIRST_PREOPEN_FD, path, OpenFlagsCreate, 0, FALSE)
  \/ \E fd \in DynFds, bufLen \in BufLens, cookie \in Cookies, fireAt \in 0..2 :
        /\ ncalls < MaxCalls - 1
        /\ FdReaddir(fd, bufLen, cookie, fireAt)
  \/ GuestReturn(1)
  \/ ExportReturn(1)
  \/ RunSettle

SpecDir == Init /\ [][NextDir]_vars

\* The guest removes files and directories below the sandbox and creates files, while
\* the host may deny a removal and the embedder may abort.
NextDel ==
  \/ Run
  \/ InvokeGuest(1)
  \/ \E path \in Paths : PathOpen(FIRST_PREOPEN_FD, path, OpenFlagsCreate, 0, FALSE)
  \/ \E dirFd \in DynFds, path \in Paths, denied, fire \in BOOLEAN :
        PathUnlinkFile(dirFd, path, denied, fire)
  \/ \E dirFd \in DynFds, path \in Paths, denied, fire \in BOOLEAN :
        PathRemoveDirectory(dirFd, path, denied, fire)
  \/ FloatSettle
  \/ GuestReturn(1)
  \/ ExportReturn(1)
  \/ RunSettle

SpecDel == Init /\ [][NextDel]_vars

\* The subscriptions the guest polls: clocks of 1 ms and 2 ms, a clock of 1 ms with a
\* precision of 1 ms, a read and a write subscription.
Subs ==
  {ClockSub(7, 1, 0), ClockSub(8, 2, 0), ClockSub(9, 1, 1),
   FdSub("FdRead", 5), FdSub("FdWrite", 6)}
SubLists == UNION {[1..n -> Subs] : n \in 0..MaxSubs}

\* The guest polls, and sleeps on clock subscriptions, in up to MaxCalls - 2 calls,
\* while the embedder may abort.
NextPoll ==
  \/ Run
  \/ InvokeGuest(1)
  \/ \E subs \in SubLists, fire \in BOOLEAN :
        ncalls < MaxCalls - 2 /\ PollOneoff(subs, fire)
  \/ PollWake
  \/ PollAbort
  \/ timer.st # "pending" /\ GuestReturn(1)
  \/ ExportReturn(1)
  \/ RunSettle

SpecPoll == Init /\ [][NextPoll]_vars

\* As NextPoll, and the embedder may abort before it calls run().
NextPollAbort ==
  \/ NextPoll
  \/ Abort

SpecPollAbort == Init /\ [][NextPollAbort]_vars

\* The guest asks for the sizes of argv and environ and has them written to its
\* memory, in up to MaxCalls - 1 calls, while the embedder may abort.
NextArgv ==
  \/ Run
  \/ InvokeGuest(1)
  \/ ncalls < MaxCalls - 1 /\ ArgsSizesGet(FALSE)
  \/ \E argvBufPtr \in BufPtrs, fire \in BOOLEAN :
        ncalls < MaxCalls - 1 /\ ArgsGet(argvBufPtr, fire)
  \/ ncalls < MaxCalls - 1 /\ EnvironSizesGet(FALSE)
  \/ \E environBufPtr \in BufPtrs, fire \in BOOLEAN :
        ncalls < MaxCalls - 1 /\ EnvironGet(environBufPtr, fire)
  \/ GuestReturn(1)
  \/ ExportReturn(1)
  \/ RunSettle

SpecArgv == InitArgv /\ [][NextArgv]_vars

\* ================================================================ claims

\* The suspension cycle, in the order of the controller's code.
Cycle ==
  <<Ev("start_unwind", 16), Ev("stop_unwind", 0), Ev("await", 0),
    Ev("start_rewind", 16), Ev("reinvoke", 0), Ev("stop_rewind", 0)>>

Count(evs, e) == Cardinality({i \in 1..Len(evs) : evs[i].e = e})

\* C1: the controller's steps of an export call are repetitions of the cycle
\* start_unwind(16), stop_unwind, await, start_rewind(16), re-invocation, stop_rewind,
\* in that order and with no step missing; a call that completes normally has made
\* one whole cycle per import call that returned a promise, so as many start_unwind as
\* start_rewind calls; only a rejection of the awaited promise ends a call inside a
\* cycle, and then at the await.
C1_SuspensionCycle ==
  \A c \in CallIds :
    LET evs == calls[c].evs IN
    /\ \A i \in 1..Len(evs) : evs[i] = Cycle[((i - 1) % 6) + 1]
    /\ calls[c].pc = "done" =>
         /\ Len(evs) = 6 * calls[c].asyncImps
         /\ Count(evs, "start_unwind") = Count(evs, "start_rewind")
    /\ calls[c].pc = "rejected" =>
         /\ Len(evs) % 6 = 3
         /\ calls[c].prom.st = "rejected"
         /\ calls[c].err = calls[c].prom.err

\* A call that completed normally after two whole suspension cycles.
C1_Witness ==
  \E c \in CallIds : calls[c].pc = "done" /\ Len(calls[c].evs) = 12

\* C2: with one export call in flight, an import wrapper re-entered in state
\* Rewinding returns the value its own promise resolved to, and the host function has
\* been invoked once per import call of the guest (not again on re-entry).
C2_RewindReturnsResolved ==
  \A c \in CallIds :
    /\ calls[c].recv # NoRecv =>
         /\ calls[c].prom.st = "fulfilled"
         /\ calls[c].recv.owner = calls[c].prom.owner
         /\ calls[c].recv.val = calls[c].prom.val
    /\ calls[c].hostCalls =
         calls[c].impCalls
           - (IF calls[c].pc = "import" /\ astate = StateNone THEN 1 ELSE 0)

\* The second import call of an export was re-entered and returned BADF, the code its
\* promise resolved to, after two host invocations in all.
C2_Witness ==
  \E c \in CallIds :
    /\ calls[c].recv = [owner |-> <<c, 1>>, val |-> Num(BADF)]
    /\ calls[c].hostCalls = 2
    /\ calls[c].pc = "guest"

\* C3: the guest export is called with the caller's arguments the first time and with
\* no arguments every time after an asyncify_start_rewind.
C3_RewindWithoutArgs ==
  \A c \in CallIds :
    LET fa == calls[c].fnArgs IN
    /\ fa # <<>> => fa[1] = calls[c].args
    /\ \A i \in 2..Len(fa) : fa[i] = <<>>
    /\ calls[c].pc \in {"guest", "import", "unwinding", "loop", "await", "done"} =>
         Len(fa) = 1 + Count(calls[c].evs, "reinvoke")

\* An export called with (1, 2) has been re-invoked twice.
C3_Witness ==
  \E c \in CallIds : calls[c].args = <<1, 2>> /\ Len(calls[c].fnArgs) = 3

\* C4: in export mode an export call that completes without any promise-returning
\* import has called the guest export once, with the caller's arguments, has made no
\* asyncify_start_unwind / asyncify_start_rewind call and resolves with the guest's
\* return value, a + b for sum(a, b).
C4_SynchronousExport ==
  \A c \in CallIds :
    (mode = "export" /\ calls[c].pc = "done" /\ calls[c].asyncImps = 0) =>
      /\ calls[c].fnArgs = <<calls[c].args>>
      /\ calls[c].evs = <<>>
      /\ calls[c].result = Num(calls[c].args[1] + calls[c].args[2])

\* sum(1, 2) resolved to 3 after two calls of a plain import.
C4_Witness ==
  \E c \in CallIds :
    /\ mode = "export" /\ calls[c].pc = "done" /\ calls[c].args = <<1, 2>>
    /\ calls[c].hostCalls = 2 /\ calls[c].asyncImps = 0
    /\ calls[c].result = Num(3)

\* C5: while one export call is in flight, suspended at `await this.value` included,
\* no other invocation of a wrapped export is inside the guest (running it, in one of
\* its import calls, or unwinding it).
C5_NoInterleaving ==
  \A c, d \in CallIds :
    (c # d /\ calls[c].pc = "await") =>
      calls[d].pc \notin {"guest", "import", "unwinding"}

\* C6: while the guest is unwinding out of an import call, the fd_write behind that
\* call has handed no io-vector to its sink: in run mode no chunk of it is in stdout
\* or stderr.
C6_NoEffectWhileUnwinding ==
  \A c \in CallIds :
    (cur = c /\ astate = StateUnwinding) =>
      /\ calls[c].prom.step = 0
      /\ mode = "run" =>
           \A i \in 1..Len(stdout \o stderr) :
             <<(stdout \o stderr)[i][1], (stdout \o stderr)[i][2]>> # calls[c].prom.owner

\* C7: a call through the dispatch wrapper whose implementation returned while the
\* abort signal has not fired is fulfilled with SUCCESS (0); one whose implementation
\* threw SystemError(code) is fulfilled with exactly that code, never rejected.
C7_SuccessOrSystemErrorCode ==
  \A c \in CallIds :
    LET p == calls[c].prom IN
    p.st \in {"fulfilled", "rejected"} =>
      /\ (p.impl = "ok" /\ ~aborted) => (p.st = "fulfilled" /\ p.val = Num(0))
      /\ (p.impl = "threw" /\ p.ierr.cls = "SystemError") =>
           (p.st = "fulfilled" /\ p.val = Num(p.ierr.code) /\ p.err = NoErr)

\* An implementation threw SystemError(NOSYS) and the guest received NOSYS from the
\* import call.
C7_Witness ==
  \E c \in CallIds :
    /\ calls[c].prom.ierr = SystemError(NOSYS)
    /\ calls[c].prom.st = "fulfilled"
    /\ calls[c].recv.val = Num(NOSYS)
    /\ ~aborted

\* C8: once the abort signal has fired, a step that settles a WASI call never settles
\* it with SUCCESS, and a call whose implementation returned normally is fulfilled with
\* CANCELED (11).
C8_AbortedNeverSuccess ==
  [][\A c \in CallIds :
       (/\ aborted
        /\ calls'[c].prom # calls[c].prom
        /\ calls'[c].prom.st \in {"fulfilled", "rejected"}) =>
          /\ calls'[c].prom.val # Num(0)
          /\ calls'[c].prom.impl = "ok" =>
               (calls'[c].prom.st = "fulfilled" /\ calls'[c].prom.val = Num(11))]_vars

\* After the abort signal fired, the second WASI call of an export returned normally
\* from its implementation and was fulfilled with CANCELED.
C8_Witness ==
  \E c \in CallIds :
    /\ aborted
    /\ calls[c].prom.owner = <<c, 1>>
    /\ calls[c].prom.impl = "ok"
    /\ calls[c].prom.val = Num(CANCELED)

\* C9: run() resolves to c when the last import call of _start was proc_exit(c) (or
\* any ExitStatus(c) ended it), resolves to 0 when _start returned, which it does only
\* without a proc_exit call, and rejects with the very error that ended _start in
\* every other case.
C9_RunResult ==
  mode = "run" =>
    /\ runP.st = "resolved" =>
         \/ calls[1].pc = "done" /\ runP.val = 0
              /\ calls[1].prom.op.name # "proc_exit"
         \/ calls[1].pc = "rejected" /\ calls[1].err = ExitStatus(runP.val)
    /\ runP.st = "rejected" =>
         /\ calls[1].pc = "rejected"
         /\ calls[1].err.cls # "ExitStatus"
         /\ runP.err = calls[1].err
         /\ calls[1].prom.st = "rejected" => runP.err = calls[1].prom.ierr
    /\ (runP.st \in {"resolved", "rejected"} /\ calls[1].prom.op.name = "proc_exit") =>
         (runP.st = "resolved" /\ runP.val = calls[1].prom.op.a)

\* run() resolved to 120: the guest called proc_exit(120) as its second import call,
\* after one suspension and rewind.
C9_Witness ==
  /\ runP.st = "resolved" /\ runP.val = 120
  /\ calls[1].prom.op = ProcExitOp(120)
  /\ calls[1].impCalls = 2
  /\ Count(calls[1].evs, "stop_rewind") = 1

\* A thrown value the error table does not name: no SystemError, none of the named
\* host errors, no TypeError or RangeError.
Unrecognised(err) ==
  /\ err.cls \notin {"none", "SystemError", "TypeError", "RangeError"}
  /\ ~(err.cls = "Error" /\
       err.name \in {"NotFoundError", "NotAllowedError", "DataCloneError",
                     "SecurityError", "InvalidModificationError", "AbortError"})

\* C10: a call whose implementation threw an unrecognised value is rejected with that
\* same value, never fulfilled with a code; a proc_exit(n) call is rejected with
\* ExitStatus(n), and that is the value the export call ends with, which run() catches.
C10_UnrecognisedRethrown ==
  \A c \in CallIds :
    LET p == calls[c].prom IN
    /\ (p.st \in {"fulfilled", "rejected"} /\ p.impl = "threw" /\ Unrecognised(p.ierr)) =>
         (p.st = "rejected" /\ p.err = p.ierr /\ p.val = Undef)
    /\ p.op.name = "proc_exit" =>
         /\ p.st = "rejected" /\ p.err = ExitStatus(p.op.a)
         /\ calls[c].pc \in {"done", "rejected"} =>
              (calls[c].pc = "rejected" /\ calls[c].err = ExitStatus(p.op.a))

\* In run mode _start ended with the ExitStatus(120) that proc_exit(120) raised.
C10_Witness ==
  /\ mode = "run"
  /\ calls[1].prom.op = ProcExitOp(120)
  /\ calls[1].prom.st = "rejected"
  /\ calls[1].pc = "rejected"
  /\ calls[1].err = ExitStatus(120)
  /\ runP.st = "awaiting"

\* The code the error table gives for a host error name.
TableCode(name) ==
  CASE name = "NotFoundError" -> 44
    [] name = "NotAllowedError" -> 2
    [] name = "DataCloneError" -> 2
    [] name = "SecurityError" -> 2
    [] name = "InvalidModificationError" -> 55
    [] name = "AbortError" -> 11

TableNames ==
  {"NotFoundError", "NotAllowedError", "DataCloneError", "SecurityError",
   "InvalidModificationError", "AbortError"}

\* C11: a call whose implementation threw a host error with one of the six names of
\* the table settles fulfilled with the table's code (NOENT 44, ACCES 2, NOTEMPTY 55,
\* CANCELED 11), and that code is what the import call returns to the guest.
C11_HostErrorByName ==
  \A c \in CallIds :
    LET p == calls[c].prom IN
    (/\ p.st \in {"fulfilled", "rejected"}
     /\ p.impl = "threw"
     /\ p.ierr.cls = "Error"
     /\ p.ierr.name \in TableNames) =>
       /\ p.st = "fulfilled"
       /\ p.val = Num(TableCode(p.ierr.name))
       /\ calls[c].recv # NoRecv => calls[c].recv.val = Num(TableCode(p.ierr.name))

\* The guest received ACCES from an import call whose implementation threw a
\* DataCloneError.
C11_Witness ==
  \E c \in CallIds :
    /\ calls[c].prom.ierr = HostError("DataCloneError")
    /\ calls[c].recv.val = Num(ACCES)
    /\ calls[c].pc = "guest"

\* C12: a call whose implementation threw a TypeError or a RangeError settles fulfilled
\* with INVAL (28); it is not rejected, so the export call does not end with the error.
C12_TypeRangeInval ==
  \A c \in CallIds :
    LET p == calls[c].prom IN
    (/\ p.st \in {"fulfilled", "rejected"}
     /\ p.impl = "threw"
     /\ p.ierr.cls \in {"TypeError", "RangeError"}) =>
       (p.st = "fulfilled" /\ p.val = Num(28))

\* The step is the guest's call of the binding `name`, returned or ended by a throw.
Called(name) == ncalls' = ncalls + 1 /\ last'.name = name

\* The descriptors path_open hands out: those after the pre-open.
OpenedFds == {fd \in Fds : fd > FIRST_PREOPEN_FD}

\* C13: a descriptor f that path_open returned is in the fd table; fd_close(f) on it
\* returns SUCCESS (while the abort signal has not fired) and removes it; fd_close(f)
\* on a descriptor that is not in the table returns a code other than SUCCESS and every
\* fd_read and fd_write on it returns BADF (8), which lasts until path_open puts f into
\* the table again.
C13_CloseOnce ==
  /\ [](\A f \in OpenedFds :
          (last.name = "path_open" /\ last.ret = 0 /\ gmem.fd = f) =>
            openFiles[f].kind \in {"file", "dir"})
  /\ [][\A f \in OpenedFds :
          /\ (Called("fd_close") /\ last'.fd = f /\ openFiles[f].kind # "none") =>
               /\ openFiles'[f].kind = "none"
               /\ ~aborted' => last'.ret = 0
               /\ aborted' => last'.ret = 11
          /\ (Called("fd_close") /\ last'.fd = f /\ openFiles[f].kind = "none") =>
               (last'.ret = 8 /\ openFiles' = openFiles)
          /\ ((Called("fd_read") \/ Called("fd_write")) /\ last'.fd = f
                /\ openFiles[f].kind = "none") =>
               (last'.ret = 8 /\ openFiles' = openFiles /\ host' = host)
          /\ (openFiles[f].kind = "none" /\ openFiles'[f].kind # "none") =>
               (Called("path_open") /\ gmem'.fd = f)]_vars

\* path_open returned 4, the first fd_close(4) succeeded and the second one returned
\* BADF.
C13_Witness ==
  /\ ncalls = 3 /\ ~aborted
  /\ gmem.fd = 4
  /\ openFiles[4].kind = "none"
  /\ last.name = "fd_close" /\ last.fd = 4 /\ last.ret = BADF

\* C14: fd_seek(fd, 0, Current) on an open file at position p returns SUCCESS (while
\* the abort signal has not fired), writes p at the result pointer and leaves the
\* position at p.
C14_SeekZeroCurrent ==
  [][\A fd \in Fds :
       (/\ Called("fd_seek") /\ last'.fd = fd /\ last'.x = 0 /\ last'.y = 0
        /\ openFiles[fd].kind = "file") =>
          /\ openFiles'[fd].position = openFiles[fd].position
          /\ gmem'.pos = openFiles[fd].position
          /\ ~aborted' => last'.ret = 0]_vars

\* fd_seek(4, 0, Current) on a file at position 1 returned SUCCESS and wrote 1.
C14_Witness ==
  /\ last.name = "fd_seek" /\ last.fd = 4 /\ last.x = 0 /\ last.y = WhenceCurrent
  /\ last.ret = SUCCESS
  /\ openFiles[4].kind = "file" /\ openFiles[4].position = 1
  /\ gmem.pos = 1

\* The base of a seek: the position, the file's size or 0.
SeekBase(fd, whence) ==
  CASE whence = 0 -> openFiles[fd].position
    [] whence = 1 -> Len(host[openFiles[fd].path].data)
    [] whence = 2 -> 0

\* C15: fd_seek on an open file with base + offset < 0 returns INVAL (28).
C15_NegativeSeekInval ==
  [][\A fd \in Fds :
       (/\ Called("fd_seek") /\ last'.fd = fd
        /\ openFiles[fd].kind = "file"
        /\ SeekBase(fd, last'.y) + last'.x < 0) =>
          last'.ret = 28]_vars

\* C19: path_open with an fsFlags bit other than NonBlock (4) returns NOSYS (52) and
\* changes neither the fd table nor the host files nor guest memory (fdPtr included);
\* with fsFlags = NonBlock it returns the code and leaves the fd table, the host files
\* and guest memory that the same call with fsFlags = 0 gives, a new descriptor for an
\* existing path.
C19_OpenFsFlags ==
  [][/\ (Called("path_open") /\ last'.y \notin {0, 4}) =>
          /\ last'.ret = 52
          /\ openFiles' = openFiles /\ host' = host /\ gmem' = gmem
     /\ (Called("path_open") /\ last'.y = 4) =>
          LET zero == path_open(St, memory, last'.fd, last'.path, last'.x, 0) IN
          /\ openFiles' = zero.st.openFiles
          /\ host' = zero.st.host
          /\ gmem' = zero.st.gmem
          /\ (last'.ret = 0) = (zero.err = NoErr /\ ~aborted')
          /\ (host[last'.path].kind # "absent" /\ last'.fd = 3) =>
               /\ openFiles[gmem'.fd].kind = "none"
               /\ openFiles'[gmem'.fd].path = last'.path
               /\ last'.ret \in {0, 11}]_vars

\* path_open with fsFlags = Append | NonBlock returned NOSYS; the fd table holds the
\* pre-open only and nothing was written at fdPtr.
C19_Witness ==
  /\ last.name = "path_open" /\ last.y = FdFlagsAppend + FdFlagsNonBlock
  /\ last.path = "f"
  /\ last.ret = NOSYS
  /\ gmem.fd = Unwritten
  /\ \A fd \in OpenedFds : openFiles[fd].kind = "none"

\* C20: a call of path_rename, path_link, path_symlink, path_readlink,
\* path_filestat_set_times or fd_fdstat_set_flags returns NOSYS (52) whatever its
\* arguments, the fd table and the abort signal, and changes neither the fd table nor
\* guest memory.
C20_UnimplementedNosys ==
  [][\A name \in {"path_rename", "path_link", "path_symlink", "path_readlink",
                  "path_filestat_set_times", "fd_fdstat_set_flags"} :
       Called(name) =>
         (last'.ret = 52 /\ openFiles' = openFiles /\ gmem' = gmem /\ host' = host)]_vars

\* path_rename returned NOSYS as the third call, after the abort signal fired, with a
\* file open at descriptor 4.
C20_Witness ==
  /\ last.name = "path_rename" /\ last.ret = NOSYS
  /\ ncalls = 3 /\ aborted
  /\ openFiles[4].kind = "file"

\* The chunks a read into the io-vectors from i on gets from the bytes avail: each
\* io-vector takes what its length allows, and the first one left short is the last.
RECURSIVE ChunksInOrder(_, _, _)
ChunksInOrder(avail, iovs, i) ==
  IF i > Len(iovs) THEN <<>>
  ELSE IF Len(avail) < Len(iovs[i]) THEN <<avail>>
  ELSE <<SubSeq(avail, 1, Len(iovs[i]))>>
         \o ChunksInOrder(SubSeq(avail, Len(iovs[i]) + 1, Len(avail)), iovs, i + 1)

RECURSIVE TotalLen(_)
TotalLen(chunks) ==
  IF chunks = <<>> THEN 0 ELSE Len(Head(chunks)) + TotalLen(Tail(chunks))

\* The bytes a read on fd can get: the rest of stdin, or the file from the position.
Available(fd) ==
  IF fd = 0 THEN stdin
  ELSE SubSeq(host[openFiles[fd].path].data, openFiles[fd].position + 1,
              Len(host[openFiles[fd].path].data))

\* C16: an fd_read that returns SUCCESS has filled the io-vectors in order from the
\* bytes of its source, has stopped with the first io-vector that got fewer bytes than
\* its length, has consumed no byte for a later io-vector, and has written the sum of
\* the bytes handled at the result pointer; an fd_write that returns SUCCESS has
\* delivered the bytes of all its io-vectors in order, each io-vector whole, and has
\* written their total at the result pointer.
C16_IoVecsInOrder ==
  [][/\ \A fd \in {0} \cup OpenedFds :
          (/\ Called("fd_read") /\ last'.fd = fd /\ last'.ret = 0
           /\ fd # 0 => openFiles[fd].kind = "file") =>
             LET chunks == ChunksInOrder(Available(fd), last'.lens, 1) IN
             /\ gmem'.bufs = chunks
             /\ gmem'.n = TotalLen(chunks)
             /\ fd = 0 => stdin' = SubSeq(stdin, TotalLen(chunks) + 1, Len(stdin))
             /\ fd # 0 => /\ openFiles'[fd].position =
                               openFiles[fd].position + TotalLen(chunks)
                          /\ stdin' = stdin
     /\ \A fd \in {1, 2} \cup OpenedFds :
          (/\ Called("fd_write") /\ last'.fd = fd /\ last'.ret = 0
           /\ fd \notin {1, 2} => openFiles[fd].kind = "file") =>
             /\ gmem'.n = TotalLen(last'.lens)
             /\ fd = 1 => (stdout' = stdout \o Concat(last'.lens) /\ stderr' = stderr)
             /\ fd = 2 => (stderr' = stderr \o Concat(last'.lens) /\ stdout' = stdout)
             /\ fd \notin {1, 2} =>
                  /\ openFiles'[fd].position =
                       openFiles[fd].position + TotalLen(last'.lens)
                  /\ SubSeq(host'[openFiles[fd].path].data,
                            openFiles[fd].position + 1, openFiles'[fd].position)
                       = Concat(last'.lens)
                  /\ stdout' = stdout /\ stderr' = stderr]_vars

\* With one byte of stdin left, fd_read(0) with io-vectors of two bytes and one byte
\* returned SUCCESS: the first io-vector got the byte, the second was not touched, and
\* 1 was written at the result pointer.
C16_Witness ==
  /\ last.name = "fd_read" /\ last.fd = 0 /\ last.ret = SUCCESS
  /\ last.lens = <<<<2, 3>>, <<1>>>>
  /\ gmem.bufs = <<<<22>>>>
  /\ gmem.n = 1
  /\ stdin = <<>>

\* C17: a directory is read completely by calling fd_readdir from cookie 0 and again
\* from the last next cookie, whatever the guest's buffer length: every fd_readdir
\* that returns SUCCESS at a cookie c, 0 or the next cookie of an entry, has written the entries that follow position c, in
\* the enumeration's order, each with the next cookie one above its position (so a
\* call from any returned cookie yields what remains), and it has written at least one
\* entry while entries remain, so that the iteration advances to the end.
C17_ReaddirIteration ==
  [][\A fd \in DynFds :
       (/\ Called("fd_readdir") /\ last'.fd = fd /\ last'.ret = 0
        /\ asDir(St, fd) = NoErr
        /\ last'.y <= Len(DirEntries(St, fd))) =>
          LET all == DirEntries(St, fd)
              c == last'.y
              got == gmem'.dirents
          IN /\ c + Len(got) <= Len(all)
             /\ \A i \in 1..Len(got) :
                  /\ got[i].name = all[c + i].name
                  /\ got[i].next = c + i
             /\ c < Len(all) => Len(got) >= 1]_vars

\* The bytes args_sizes_get reports for strings: each string and its terminator.
RECURSIVE SizeOf(_)
SizeOf(strings) ==
  IF strings = <<>> THEN 0 ELSE Len(Head(strings)) + 1 + SizeOf(Tail(strings))

\* The NUL-terminated string the guest reads at address a.
RECURSIVE CStringAt(_, _)
CStringAt(mem, a) ==
  IF a \notin DOMAIN mem \/ mem[a] = NUL THEN <<>>
  ELSE <<mem[a]>> \o CStringAt(mem, a + 1)

NoNul(strings) ==
  \A i \in 1..Len(strings) : \A k \in 1..Len(strings[i]) : strings[i][k] # NUL

\* A successful sizes call reports the number of strings and the sum of their lengths
\* plus one each; a successful get call with the buffer pointer p writes the pointers
\* p + offset_i, offset_i being the bytes of the strings before the i-th.
SizesAndPointers(strings, sizesName, getName) ==
  /\ (Called(sizesName) /\ last'.ret = 0) =>
       /\ gmem'.count = Len(strings)
       /\ gmem'.size = SizeOf(strings)
  /\ (Called(getName) /\ last'.ret = 0) =>
       /\ Len(gmem'.ptrs) = Len(strings)
       /\ \A i \in 1..Len(strings) :
            gmem'.ptrs[i] = last'.x + SizeOf(SubSeq(strings, 1, i - 1))

\* After a successful get call the NUL-terminated string at the i-th pointer is the
\* i-th string.
StringsReadBack(strings, getName) ==
  (Called(getName) /\ last'.ret = 0) =>
    /\ Len(gmem'.ptrs) = Len(strings)
    /\ \A i \in 1..Len(strings) : CStringAt(gmem'.str, gmem'.ptrs[i]) = strings[i]

\* C18 as stated: for any argv list, args_sizes_get reports count = number of
\* arguments and size = sum of (length + 1), and args_get writes the pointers
\* argvBufPtr + offset_i such that the NUL-terminated string at pointer i is argument
\* i, in the original order; environ_sizes_get and environ_get do the same over the
\* "key=value" strings of env.
C18_ArgvAnyStrings ==
  [][/\ SizesAndPointers(argv, "args_sizes_get", "args_get")
     /\ StringsReadBack(argv, "args_get")
     /\ SizesAndPointers(EnvStrings(env), "environ_sizes_get", "environ_get")
     /\ StringsReadBack(EnvStrings(env), "environ_get")]_vars

\* C18, amended: the sizes and the pointers are as stated for any argv list and any
\* env; the NUL-terminated string at pointer i is string i when no string of the list
\* contains a NUL character.
C18_ArgvWithoutNul ==
  [][/\ SizesAndPointers(argv, "args_sizes_get", "args_get")
     /\ NoNul(argv) => StringsReadBack(argv, "args_get")
     /\ SizesAndPointers(EnvStrings(env), "environ_sizes_get", "environ_get")
     /\ NoNul(EnvStrings(env)) => StringsReadBack(EnvStrings(env), "environ_get")]_vars

\* After args_sizes_get reported 2 arguments in 5 bytes for ("a", "bc"), args_get with
\* the buffer at 3 returned SUCCESS: the pointers are 3 and 5 and the buffer holds
\* "a\0bc\0".
C18_Witness ==
  /\ argv = <<<<97>>, <<98, 99>>>>
  /\ last.name = "args_get" /\ last.x = 3 /\ last.ret = SUCCESS
  /\ gmem.count = 2 /\ gmem.size = 5
  /\ gmem.ptrs = <<3, 5>>
  /\ [a \in 3..7 |-> gmem.str[a]] = [a \in 3..7 |-> <<97, NUL, 98, 99, NUL>>[a - 2]]

\* C21: path_remove_directory and path_unlink_file on a pre-open return to the guest
\* only after the host delete has settled (no delete is in flight that was not before
\* the call), return NOENT, NOTEMPTY or ACCES whenever the host delete fails, and
\* return SUCCESS only for a delete that removed the entry.
C21_DeleteSettled ==
  [][\A name \in {"path_remove_directory", "path_unlink_file"} :
       (Called(name) /\ IsPreOpen(St, last'.fd)) =>
          LET fails == last'.y = 1 \/ host[last'.path].kind = "absent"
          IN /\ floating' \subseteq floating
             /\ fails => last'.ret \in {NOENT, NOTEMPTY, ACCES}
             /\ last'.ret = SUCCESS => (~fails /\ host'[last'.path].kind = "absent")]_vars

\* C22: poll_oneoff called with zero subscriptions raises a precondition error, the
\* RangeError that ends the guest's call, before it reads a subscription: it sets no
\* timer and writes neither an event nor the event count.
C22_PollNoSubscription ==
  [][(/\ ncalls' = ncalls + 1
      /\ last'.name = "poll_oneoff"
      /\ last'.x = 0) =>
        /\ calls'[1].pc = "rejected"
        /\ calls'[1].err = RangeErr
        /\ last'.ret = -1
        /\ gmem' = gmem
        /\ timer' = timer]_vars

\* poll_oneoff with no subscription ended the guest's call with the RangeError; no
\* event count was written.
C22_Witness ==
  /\ last.name = "poll_oneoff" /\ last.x = 0 /\ last.ret = -1
  /\ calls[1].pc = "rejected"
  /\ calls[1].err = RangeErr
  /\ gmem.nevents = Unwritten

\* C23: when the abort signal fires while poll_oneoff sleeps on clock subscriptions,
\* the pending timer is cleared, the call returns CANCELED to the guest in that step,
\* without the timeout elapsing, and neither a clock event nor the event count is
\* written.
C23_AbortWhileSleeping ==
  [][(timer.st = "pending" /\ ~aborted /\ aborted') =>
        /\ timer'.st = "cleared"
        /\ Called("poll_oneoff")
        /\ last' = [timer.req EXCEPT !.ret = CANCELED]
        /\ gmem' = gmem]_vars

\* A poll_oneoff on the clocks of 1 ms and 2 ms was sleeping when the abort signal
\* fired: the timer is cleared, the guest got CANCELED, nothing was written.
C23_Witness ==
  /\ timer.st = "cleared"
  /\ aborted
  /\ last.name = "poll_oneoff" /\ last.ret = CANCELED
  /\ last.lens = <<ClockSub(7, 1, 0), ClockSub(8, 2, 0)>>
  /\ gmem.events = <<>> /\ gmem.nevents = Unwritten

\* The event the claim expects for a read or write subscription.
NosysEvent(sub) ==
  [userdata |-> sub.userdata, error |-> NOSYS, type |-> sub.tag, nbytes |-> 0]

\* C30: a poll_oneoff whose subscriptions contain a read or write subscription returns
\* without setting a timer; it has written one event per read or write subscription,
\* in their order, with the subscription's userdata, error NOSYS and nbytes 0, no
\* event for a clock subscription, and the number of read and write subscriptions as
\* the event count.
C30_PollFdSubscriptions ==
  [][(/\ ncalls' = ncalls + 1
      /\ last'.name = "poll_oneoff"
      /\ \E i \in 1..Len(last'.lens) : last'.lens[i].tag # "Clock") =>
        LET NotClock(sub) == sub.tag # "Clock"
            fdSubs == SelectSeq(last'.lens, NotClock)
        IN /\ timer' = timer
           /\ last'.ret \in {SUCCESS, CANCELED}
           /\ gmem'.nevents = Len(fdSubs)
           /\ Len(gmem'.events) >= Len(fdSubs)
           /\ \A k \in 1..Len(fdSubs) : gmem'.events[k] = NosysEvent(fdSubs[k])
           /\ \A k \in (Len(fdSubs) + 1)..Len(gmem'.events) :
                k <= Len(gmem.events) /\ gmem'.events[k] = gmem.events[k]]_vars

\* poll_oneoff on a clock and a write subscription returned SUCCESS with the one event
\* of the write subscription and the count 1; no timer was ever set.
C30_Witness ==
  /\ last.name = "poll_oneoff" /\ last.ret = SUCCESS
  /\ last.lens = <<ClockSub(7, 1, 0), FdSub("FdWrite", 6)>>
  /\ gmem.events = <<NosysEvent(FdSub("FdWrite", 6))>>
  /\ gmem.nevents = 1
  /\ timer = NoTimer

\* C27: the asyncify state is None whenever host code has yielded to the event loop,
\* at each step that brings an export call to the await of the stashed promise, and at
\* each step that resolves a wrapped export call; it is Unwinding or Rewinding only
\* during the synchronous run of an export call, from asyncify_start_rewind or the
\* import wrapper's asyncify_start_unwind to the asyncify_stop_* call that follows.
C27_NoneWhenYielding ==
  /\ [](/\ cur = 0 => astate = StateNone
        /\ astate # StateNone =>
             /\ cur \in CallIds
             /\ calls[cur].pc \in {"rewind", "import", "unwinding", "loop"})
  /\ [][\A c \in CallIds :
          (calls'[c].pc # calls[c].pc /\ calls'[c].pc \in {"await", "done"}) =>
             astate' = StateNone]_vars

\* An export call awaits its stashed promise a second time, in state None, after a
\* suspension and a rewind.
C27_Witness ==
  \E c \in CallIds :
    /\ calls[c].pc = "await"
    /\ Count(calls[c].evs, "stop_rewind") = 1
    /\ Count(calls[c].evs, "stop_unwind") = 2
    /\ astate = StateNone
    /\ cur = 0

\* C24: the bytes the guest writes to fd 1 reach the stdout sink and those it writes to
\* fd 2 reach the stderr sink, in the order of the calls and of the io-vectors, each
\* byte once: an fd_write on fd 1 or 2 appends to its sink the bytes of its first k
\* io-vectors, of all of them when it returns SUCCESS, and leaves the other sink as it
\* was; no other step changes a sink.
C24_SinksInOrder ==
  [][/\ \A fd \in {1, 2} :
          (Called("fd_write") /\ last'.fd = fd) =>
             LET sink == IF fd = 1 THEN stdout ELSE stderr
                 sinkAfter == IF fd = 1 THEN stdout' ELSE stderr'
             IN /\ \E k \in 0..Len(last'.lens) :
                     /\ sinkAfter = sink \o Concat(SubSeq(last'.lens, 1, k))
                     /\ last'.ret = SUCCESS => k = Len(last'.lens)
                /\ fd = 1 => stderr' = stderr
                /\ fd = 2 => stdout' = stdout
     /\ (stdout' # stdout \/ stderr' # stderr) =>
          (Called("fd_write") /\ last'.fd \in {1, 2})]_vars

\* After fd_write(1, ((2, 3))) the guest wrote (1) and (2, 3) to fd 2 and got SUCCESS:
\* stdout holds 2, 3 and stderr holds 1, 2, 3.
C24_Witness ==
  /\ last.name = "fd_write" /\ last.fd = 2 /\ last.ret = SUCCESS
  /\ last.lens = <<<<1>>, <<2, 3>>>>
  /\ stdout = <<2, 3>>
  /\ stderr = <<1, 2, 3>>

\* The io-vector at which the call notices the abort signal: the first one when the
\* signal had fired before the call, else the one during which it fires.
AbortSeenAt == IF aborted THEN 1 ELSE last'.y

\* C28: when the abort signal has fired by the time io-vector i of an fd_read or
\* fd_write has been handled, the call returns CANCELED, the io-vectors up to i are
\* the only ones read or written, and the byte total is not written at the result
\* pointer.
C28_AbortBetweenIoVecs ==
  [][/\ \A fd \in {0} \cup OpenedFds :
          (/\ Called("fd_read") /\ last'.fd = fd
           /\ fd # 0 => openFiles[fd].kind = "file"
           /\ aborted \/ last'.y >= 1
           /\ Len(last'.lens) >= 1
           /\ Len(ChunksInOrder(Available(fd), last'.lens, 1)) >= AbortSeenAt) =>
             LET chunks ==
                   ChunksInOrder(Available(fd), SubSeq(last'.lens, 1, AbortSeenAt), 1)
             IN /\ last'.ret = CANCELED
                /\ gmem'.bufs = chunks
                /\ gmem'.n = gmem.n
                /\ fd = 0 => stdin' = SubSeq(stdin, TotalLen(chunks) + 1, Len(stdin))
                /\ fd # 0 => openFiles'[fd].position =
                                openFiles[fd].position + TotalLen(chunks)
     /\ \A fd \in {1, 2} \cup OpenedFds :
          (/\ Called("fd_write") /\ last'.fd = fd
           /\ fd \notin {1, 2} => openFiles[fd].kind = "file"
           /\ aborted \/ last'.y >= 1
           /\ Len(last'.lens) >= 1) =>
             LET written == Concat(SubSeq(last'.lens, 1, AbortSeenAt))
             IN /\ last'.ret = CANCELED
                /\ gmem'.n = gmem.n
                /\ fd = 1 => stdout' = stdout \o written
                /\ fd = 2 => stderr' = stderr \o written
                /\ fd \notin {1, 2} =>
                     openFiles'[fd].position = openFiles[fd].position + Len(written)]_vars

\* The abort signal fired while the first of two io-vectors of an fd_write on stdout
\* was written: the guest got CANCELED, only the first io-vector reached stdout, and
\* no total was written.
C28_Witness ==
  /\ last.name = "fd_write" /\ last.fd = 1 /\ last.y = 1 /\ last.ret = CANCELED
  /\ last.lens = <<<<1>>, <<2, 3>>>>
  /\ stdout = <<1>>
  /\ gmem.n = Unwritten
  /\ aborted

\* C25: fd_datasync and fd_sync on a stdio descriptor (0, 1 or 2) return SUCCESS and
\* change nothing; on an open regular file they return SUCCESS and leave no written
\* byte unflushed (both while the abort signal has not fired).
C25_SyncStdioNoOp ==
  [][\A name \in {"fd_datasync", "fd_sync"} :
       (Called(name) /\ ~aborted') =>
          /\ last'.fd \in 0..2 =>
               /\ last'.ret = SUCCESS
               /\ openFiles' = openFiles /\ host' = host
          /\ openFiles[last'.fd].kind = "file" =>
               /\ last'.ret = SUCCESS
               /\ openFiles' = [openFiles EXCEPT ![last'.fd].dirty = FALSE]
               /\ host' = host]_vars

\* C26: wrapping is memoised for exports and imports: whatever was wrapped or looked
\* up so far, each guest export and each host import has yielded one wrapper handle
\* at most.
C26_WrappersMemoised ==
  \A fn \in GuestExports \cup HostImports : Cardinality(wrappers.got[fn]) <= 1

\* The bytes of the dirents written: for each its header and its name.
RECURSIVE DirentBytes(_)
DirentBytes(dirents) ==
  IF dirents = <<>> THEN 0
  ELSE DirentSize + Len(Head(dirents).name) + DirentBytes(Tail(dirents))

ClockOrder(subs) ==
  CHOOSE p \in [1..Len(subs) -> 1..Len(subs)] :
    /\ \A i, j \in 1..Len(subs) : i # j => p[i] # p[j]
    /\ \A i, j \in 1..Len(subs) :
         i < j => \/ subs[p[i]].timeout < subs[p[j]].timeout
                  \/ subs[p[i]].timeout = subs[p[j]].timeout /\ p[i] < p[j]

SortedClocks(subs) == [i \in 1..Len(subs) |-> subs[ClockOrder(subs)[i]]]

\* The number of subscriptions whose timeout is at most wait = (smallest timeout) +
\* (its precision).
DuePrefix(subs) ==
  LET sorted == SortedClocks(subs)
      wait == sorted[1].timeout + sorted[1].extra
  IN Cardinality({i \in 1..Len(sorted) : sorted[i].timeout <= wait})

AllClock(subs) == Len(subs) >= 1 /\ \A i \in 1..Len(subs) : subs[i].tag = "Clock"

\* The event the claim expects for a clock subscription that fell due.
ClockEvent(sub) ==
  [userdata |-> sub.userdata, error |-> SUCCESS, type |-> "Clock", nbytes |-> 0]

\* C31: a poll_oneoff whose n >= 1 subscriptions are all clock subscriptions first
\* sets a timer for the largest timeout among the subscriptions due within wait =
\* (smallest timeout) + (its precision), writing nothing; it returns only from that
\* sleep, and when the timer fires it has written one success event for each
\* subscription of the sorted prefix with timeout <= wait, in sorted order, and the
\* prefix length, between 1 and n, as the event count.
C31_PollClockPrefix ==
  [][/\ (timer.st # "pending" /\ timer'.st = "pending") =>
          LET subs == timer'.req.lens
          IN /\ AllClock(subs)
             /\ timer'.ms = SortedClocks(subs)[DuePrefix(subs)].timeout
             /\ gmem' = gmem
             /\ ncalls' = ncalls
     /\ (Called("poll_oneoff") /\ AllClock(last'.lens)) =>
          LET subs == last'.lens
              sorted == SortedClocks(subs)
              k == DuePrefix(subs)
          IN /\ timer.st = "pending"
             /\ timer.req.lens = subs
             /\ timer'.st = "fired" =>
                  /\ k \in 1..Len(subs)
                  /\ gmem'.nevents = k
                  /\ Len(gmem'.events) >= k
                  /\ \A i \in 1..k : gmem'.events[i] = ClockEvent(sorted[i])
                  /\ \A i \in (k + 1)..Len(gmem'.events) :
                       i <= Len(gmem.events) /\ gmem'.events[i] = gmem.events[i]
                  /\ last'.ret = IF aborted THEN CANCELED ELSE SUCCESS]_vars

\* poll_oneoff on the clocks of 2 ms and of 1 ms slept and returned SUCCESS with the
\* one event of the 1 ms clock, which alone is due within wait = 1 ms, and the count 1.
C31_Witness ==
  /\ last.name = "poll_oneoff" /\ last.ret = SUCCESS
  /\ last.lens = <<ClockSub(8, 2, 0), ClockSub(7, 1, 0)>>
  /\ timer.st = "fired"
  /\ gmem.events = <<ClockEvent(ClockSub(7, 1, 0))>>
  /\ gmem.nevents = 1

\* C38: when the abort signal has fired before poll_oneoff starts to wait on its
\* clock subscriptions, the call returns CANCELED without sleeping: it sets no timer.
C38_AbortedBeforeWait ==
  [][(aborted /\ timer.st # "pending") => timer'.st # "pending"]_vars

\* C32: the position of every open file is non-negative in every reachable state.
C32_PositionNonNegative ==
  \A fd \in Fds : openFiles[fd].kind = "file" => openFiles[fd].position >= 0

\* C33: the reads of a stdin made by bufferIn(b) return consecutive chunks of b: what
\* is left of stdin is always a suffix of b (so the chunks returned so far make up a
\* prefix of b and no byte is returned twice); each read(len) of an fd_read on fd 0
\* returns min(len, bytes remaining) bytes, an empty chunk once b is exhausted, and the
\* chunks of the call followed by what is left are what was left before; no other
\* step consumes stdin.
C33_BufferInChunks ==
  /\ [](\E k \in 0..Len(InitStdin) : stdin = SubSeq(InitStdin, k + 1, Len(InitStdin)))
  /\ [][/\ (Called("fd_read") /\ last'.fd = 0) =>
             LET got == gmem'.bufs
             IN /\ Len(got) <= Len(last'.lens)
                /\ \A i \in 1..Len(got) :
                     Len(got[i]) = Min(Len(last'.lens[i]),
                                       Len(stdin) - TotalLen(SubSeq(got, 1, i - 1)))
                /\ Concat(got) \o stdin' = stdin
        /\ stdin' # stdin => (Called("fd_read") /\ last'.fd = 0)]_vars

\* After a first read had taken all three bytes of stdin, fd_read(0) with one
\* io-vector returned SUCCESS with an empty chunk and the total 0.
C33_Witness ==
  /\ last.name = "fd_read" /\ last.fd = 0 /\ last.ret = SUCCESS
  /\ ncalls = 2
  /\ stdin = <<>>
  /\ gmem.bufs = <<<<>>>>
  /\ gmem.n = 0

\* C34: in export mode an fd_write called by an exported guest function reaches the
\* instance's memory: its implementation does not throw "Memory not yet initialised.",
\* and when the call's promise settles it is fulfilled with a result code.
C34_ExportModeMemory ==
  mode = "export" =>
    \A c \in CallIds :
      LET p == calls[c].prom
      IN p.op.name = "fd_write" =>
           /\ ~(p.impl = "threw" /\ p.ierr = MemoryError)
           /\ p.st \in {"pending", "fulfilled"}

\* C35: every call of a WASI import by the guest gets a promise from the dispatch
\* wrapper: the import wrapper entered in state None for a WASI binding never returns
\* to the guest at once but starts an unwind with the promise stashed, and an export
\* call that completes has made one unwind and one rewind per WASI import call.
C35_WasiAlwaysSuspends ==
  /\ [][\A c \in CallIds :
          (/\ cur = c /\ calls[c].pc = "import" /\ astate = StateNone
           /\ frame.op.name # "sync"
           /\ calls'[c] # calls[c]) =>
             /\ calls'[c].pc = "unwinding"
             /\ astate' = StateUnwinding
             /\ isPromise(value')
             /\ calls'[c].evs = Append(calls[c].evs, Ev("start_unwind", DATA_ADDR))]_vars
  /\ [](\A c \in CallIds :
          calls[c].pc = "done" =>
            /\ Count(calls[c].evs, "start_unwind") = calls[c].asyncImps
            /\ Count(calls[c].evs, "stop_rewind") = calls[c].asyncImps)

\* An export call completed after one plain import call and one WASI import call: it
\* made one unwind and one rewind.
C35_Witness ==
  \E c \in CallIds :
    /\ calls[c].pc = "done"
    /\ calls[c].impCalls = 2 /\ calls[c].asyncImps = 1
    /\ Count(calls[c].evs, "start_unwind") = 1
    /\ Count(calls[c].evs, "stop_rewind") = 1

\* C36: when the stashed promise an export call awaits is rejected, the call leaves
\* its await rejected with the promise's reason, without an asyncify_start_rewind and
\* without another invocation of the guest export, and the asyncify state is None
\* before and after that step; the events of a call rejected in this way end with the
\* await.
C36_RejectionEndsCall ==
  /\ [][\A c \in CallIds :
          (/\ calls[c].pc = "await" /\ calls'[c].pc # "await"
           /\ isPromise(calls[c].awaited)
           /\ calls[calls[c].awaited.v].prom.st = "rejected") =>
             /\ calls'[c].pc = "rejected"
             /\ calls'[c].err = calls[calls[c].awaited.v].prom.err
             /\ calls'[c].err.cls \notin {"none", "SystemError"}
             /\ calls'[c].evs = calls[c].evs
             /\ calls'[c].fnArgs = calls[c].fnArgs
             /\ astate = StateNone /\ astate' = StateNone]_vars
  /\ [](\A c \in CallIds :
          (calls[c].pc = "rejected" /\ calls[c].prom.st = "rejected") =>
            /\ calls[c].evs[Len(calls[c].evs)] = Ev("await", 0)
            /\ Count(calls[c].evs, "start_rewind") + 1
                 = Count(calls[c].evs, "start_unwind"))

\* An export call was rejected with the ExitStatus of proc_exit(120) at its first
\* suspension: it made one unwind and no rewind, and the guest export ran once.
C36_Witness ==
  \E c \in CallIds :
    /\ calls[c].pc = "rejected"
    /\ calls[c].err = ExitStatus(120)
    /\ Count(calls[c].evs, "start_unwind") = 1
    /\ Count(calls[c].evs, "start_rewind") = 0
    /\ Len(calls[c].fnArgs) = 1
    /\ astate = StateNone

\* C37: a path_open that returns a code other than SUCCESS, CANCELED included, has
\* added no descriptor to the fd table and has written nothing at fdPtr.
C37_FailedOpenLeavesNoFd ==
  [][(Called("path_open") /\ last'.ret \notin {SUCCESS, -1}) =>
        /\ openFiles' = openFiles
        /\ gmem'.fd = gmem.fd]_vars

====
